---- MODULE Spec2Model ----
(***************************************************************************)
(* A model of pyvmt: the formula kernel with its NEXT and LTL operators,   *)
(* the transition-model container (pyvmt.model.Model), the synchronous    *)
(* composer, the NEXT pusher and the LTL encoders.                         *)
(*                                                                         *)
(* A formula node is the triple <<node_type, payload, args>>: payload is a *)
(* sequence of strings (the symbol name, the constant's value or the      *)
(* quantified names) and args the sequence of children.  Nodes are        *)
(* hash-consed in the library, so equality of nodes is structural.         *)
(***************************************************************************)
EXTENDS Integers, Sequences, FiniteSets, TLC

VARIABLES
    heap,   \* the Model objects alive, by identity (index in the sequence)
    fresh,  \* the environment's counter for FreshSymbol
    last,   \* the last call made: its name, arguments, outcome and the heap before it
    pn,     \* the NEXT pusher's run: the input formula and the results
    run,    \* a run of a transition model: the model's parts and the current state
    out,    \* the stream a model was serialized to: the commands written
    trace   \* a Trace object: its steps and its loopback step

vars == <<heap, fresh, last, pn, run, out, trace>>

(***************************************************************************)
(* Bounds of the model.                                                    *)
(***************************************************************************)
MaxInit == 1        \* INIT constraints a model is given through the API
MaxTrans == 2       \* TRANS constraints a model is given through the API
MaxProps == 3       \* properties a model is given through the API
MaxSpecProps == 1   \* properties a model is given in Spec, next to its constraints
MaxIdx == 2         \* largest explicit property index tried
MaxDepth == 3       \* nesting depth of the formulas built for Next and the NEXT pusher
MaxLtlDepth == 1    \* nesting depth of the LTL formulas given to the encoders
MaxRewriteDepth == 2 \* nesting depth of the LTL formulas given to the rewriters
MaxJustice == 2     \* justice constraints given to make_single_justice

(***************************************************************************)
(* Formula kernel: node types and the symbols of the environment.          *)
(***************************************************************************)
FUTURE_LTL == {"LTL_X", "LTL_N", "LTL_F", "LTL_G", "LTL_U", "LTL_R"}
PAST_LTL == {"LTL_Y", "LTL_Z", "LTL_O", "LTL_H", "LTL_S", "LTL_T"}
ALL_LTL == FUTURE_LTL \cup PAST_LTL

BOOL == "Bool"
INT == "Int"

\* The names of the Int-typed symbols; every other symbol is Bool.  A name has
\* one type in an environment, so the name decides the type.
IntNames == {"x", "y"}

node_type(f) == f[1]
args(f) == f[3]
arg(f, i) == f[3][i]

Symbol(name) == <<"SYMBOL", <<name>>, <<>>>>
TRUE_ == <<"BOOL_CONSTANT", <<"true">>, <<>>>>
FALSE_ == <<"BOOL_CONSTANT", <<"false">>, <<>>>>
IntConst(v) == <<"INT_CONSTANT", <<v>>, <<>>>>

is_symbol(f) == node_type(f) = "SYMBOL"
is_quantifier(f) == node_type(f) \in {"EXISTS", "FORALL"}
symbol_name(f) == f[2][1]
quantifier_vars(f) == {Symbol(f[2][i]) : i \in 1..Len(f[2])}

\* A raised exception, as the value of a computation that builds a formula.
Raise(exc) == <<"RAISED", <<exc>>, <<>>>>
IsRaised(f) == node_type(f) = "RAISED"
exc_name(f) == f[2][1]

create_node(type, children) == <<type, <<>>, children>>

\* pysmt's constructors simplify: And() is TRUE, And(x) is x, Not(Not(x)) is x.
mgr_And(children) ==
    IF Len(children) = 0 THEN TRUE_
    ELSE IF Len(children) = 1 THEN children[1]
    ELSE create_node("AND", children)

mgr_Or(children) ==
    IF Len(children) = 0 THEN FALSE_
    ELSE IF Len(children) = 1 THEN children[1]
    ELSE create_node("OR", children)

mgr_Not(f) == IF node_type(f) = "NOT" THEN arg(f, 1) ELSE create_node("NOT", <<f>>)
mgr_Iff(l, r) == create_node("IFF", <<l, r>>)
mgr_Implies(l, r) == create_node("IMPLIES", <<l, r>>)
mgr_Ite(c, t, e) == create_node("ITE", <<c, t, e>>)
mgr_Equals(l, r) == create_node("EQUALS", <<l, r>>)
mgr_Exists(names, body) == IF Len(names) = 0 THEN body ELSE <<"EXISTS", names, <<body>>>>
mgr_ForAll(names, body) == IF Len(names) = 0 THEN body ELSE <<"FORALL", names, <<body>>>>

mgr_X(f) == create_node("LTL_X", <<f>>)
mgr_F(f) == create_node("LTL_F", <<f>>)
mgr_G(f) == create_node("LTL_G", <<f>>)
mgr_U(l, r) == create_node("LTL_U", <<l, r>>)
mgr_R(l, r) == create_node("LTL_R", <<l, r>>)
mgr_Y(f) == create_node("LTL_Y", <<f>>)
mgr_Z(f) == create_node("LTL_Z", <<f>>)
mgr_O(f) == create_node("LTL_O", <<f>>)
mgr_H(f) == create_node("LTL_H", <<f>>)
mgr_S(l, r) == create_node("LTL_S", <<l, r>>)
mgr_T(l, r) == create_node("LTL_T", <<l, r>>)
mgr_N(f) == create_node("LTL_N", <<f>>)

RECURSIVE has_next(_)
has_next(f) ==
    IF node_type(f) = "NEXT" THEN TRUE
    ELSE \E i \in 1..Len(args(f)) : has_next(arg(f, i))

RECURSIVE has_ltl(_)
has_ltl(f) ==
    IF node_type(f) \in ALL_LTL THEN TRUE
    ELSE \E i \in 1..Len(args(f)) : has_ltl(arg(f, i))

\* Next that looks for a NEXT at the top of its argument only.
mgr_Next_top_only(f) ==
    IF IsRaised(f) THEN f
    ELSE IF node_type(f) = "NEXT" THEN Raise("UnexpectedNextError")
    ELSE create_node("NEXT", <<f>>)

mgr_Next(f) ==
    IF IsRaised(f) THEN f
    ELSE IF has_next(f) THEN Raise("UnexpectedNextError")
    ELSE create_node("NEXT", <<f>>)

RECURSIVE get_free_variables(_)
get_free_variables(f) ==
    IF is_symbol(f) THEN {f}
    ELSE IF is_quantifier(f) THEN get_free_variables(arg(f, 1)) \ quantifier_vars(f)
    ELSE UNION {get_free_variables(arg(f, i)) : i \in 1..Len(args(f))}

RECURSIVE get_type(_)
get_type(f) ==
    IF is_symbol(f) THEN (IF symbol_name(f) \in IntNames THEN INT ELSE BOOL)
    ELSE IF node_type(f) = "INT_CONSTANT" THEN INT
    ELSE IF node_type(f) = "NEXT" THEN get_type(arg(f, 1))
    ELSE IF node_type(f) = "ITE" THEN get_type(arg(f, 2))
    ELSE BOOL

mgr_EqualsOrIff(l, r) ==
    IF IsRaised(l) THEN l
    ELSE IF IsRaised(r) THEN r
    ELSE IF get_type(l) = BOOL THEN mgr_Iff(l, r) ELSE mgr_Equals(l, r)

FreshSymbol(template, n) == Symbol(template \o ToString(n))

(***************************************************************************)
(* IdentityDagWalker: each node is rebuilt by the constructor of its type  *)
(* from the results of its children.                                       *)
(***************************************************************************)
FirstRaised(fs) == fs[CHOOSE i \in 1..Len(fs) : IsRaised(fs[i]) /\ \A j \in 1..(i - 1) : ~IsRaised(fs[j])]

AnyRaised(fs) == \E i \in 1..Len(fs) : IsRaised(fs[i])

IdentityDagWalker(formula, results) ==
    IF AnyRaised(results) THEN FirstRaised(results)
    ELSE CASE node_type(formula) = "AND" -> mgr_And(results)
           [] node_type(formula) = "OR" -> mgr_Or(results)
           [] node_type(formula) = "NOT" -> mgr_Not(results[1])
           [] node_type(formula) = "EXISTS" -> mgr_Exists(formula[2], results[1])
           [] node_type(formula) = "FORALL" -> mgr_ForAll(formula[2], results[1])
           [] node_type(formula) = "NEXT" -> mgr_Next(results[1])
           [] Len(args(formula)) = 0 -> formula
           [] OTHER -> create_node(node_type(formula), results)

(***************************************************************************)
(* NextPusher.  A walk computes the result of a node from the results of   *)
(* the nodes _get_children gives for it; the memoization table caches the  *)
(* result per node, and a walker has one set of bound variables, so the    *)
(* result is a function of the node and that set.                          *)
(***************************************************************************)
\* _get_children: the child of NEXT(sub) is sub rebuilt over the NEXT of each
\* of its children.
_get_children(formula) ==
    IF node_type(formula) = "NEXT"
    THEN LET sub == arg(formula, 1)
         IN  IF node_type(sub) = "NEXT" THEN <<Raise("UnexpectedNextError")>>
             ELSE <<IdentityDagWalker(sub, [i \in 1..Len(args(sub)) |-> mgr_Next(arg(sub, i))])>>
    ELSE args(formula)

\* walk_next that keeps the NEXT on every symbol, bound or not.
walk_next_on_bound(_bound_variables, formula, results) ==
    IF is_symbol(results[1]) THEN mgr_Next(results[1]) ELSE results[1]

walk_next(_bound_variables, formula, results) ==
    IF is_symbol(results[1]) /\ results[1] \notin _bound_variables
    THEN mgr_Next(results[1])
    ELSE results[1]

RECURSIVE NextPusher_walk(_, _)

\* The results of a NEXT node's children taken to be the children themselves.
children_results_unwalked(_bound_variables, formula, children) ==
    IF node_type(formula) = "NEXT" THEN children
    ELSE [i \in 1..Len(children) |-> NextPusher_walk(_bound_variables, children[i])]

\* _compute_node_result: the memoized results of the node's children.
children_results(_bound_variables, formula, children) ==
    [i \in 1..Len(children) |-> NextPusher_walk(_bound_variables, children[i])]

NextPusher_walk(_bound_variables, formula) ==
    IF IsRaised(formula) THEN formula
    ELSE IF is_quantifier(formula)
    THEN LET res_formula == NextPusher_walk(_bound_variables \cup quantifier_vars(formula),
                                            arg(formula, 1))
         IN  IdentityDagWalker(formula, <<res_formula>>)
    ELSE LET results == children_results(_bound_variables, formula, _get_children(formula))
         IN  IF AnyRaised(results) THEN FirstRaised(results)
             ELSE IF node_type(formula) = "NEXT"
             THEN walk_next(_bound_variables, formula, results)
             ELSE IdentityDagWalker(formula, results)

push_next(formula) == NextPusher_walk({}, formula)

(***************************************************************************)
(* The transition-model container, pyvmt.model.Model.  Every operation     *)
(* takes the heap and the identity of the model it is called on and gives  *)
(* [err, heap, ret]: the exception raised ("" when the call returns), the  *)
(* heap after the call and the value returned (-1 when there is none).     *)
(***************************************************************************)
INVAR_PROPERTY == "invar"
LIVE_PROPERTY == "live"
LTL_PROPERTY == "ltl"
LTLF_PROPERTY == "ltlf"
PROPERTY_TYPES == {INVAR_PROPERTY, LIVE_PROPERTY, LTL_PROPERTY, LTLF_PROPERTY}

\* Model.__init__
EmptyModel ==
    [state_vars |-> {}, inputs |-> {}, init |-> <<>>, trans |-> <<>>,
     properties |-> <<>>, next_property_idx |-> 0]

Returns(h, r) == [err |-> "", heap |-> h, ret |-> r]
Raises(h, exc) == [err |-> exc, heap |-> h, ret |-> -1]

is_input_variable(M, f) == is_symbol(f) /\ f \in M.inputs
is_state_variable(M, f) == is_symbol(f) /\ f \in M.state_vars

\* A declaration check that looks at the inputs alone.
_is_declared_inputs_only(M, f) == is_input_variable(M, f)

_is_declared(M, f) == is_input_variable(M, f) \/ is_state_variable(M, f)

\* A check that is content with one declared symbol.
_any_symbol_declared(M, f) == \E v \in get_free_variables(f) : _is_declared(M, v)

_all_symbols_declared(M, f) == \A v \in get_free_variables(f) : _is_declared(M, v)

add_input_var(h, m, symbol) ==
    IF ~is_symbol(symbol) THEN Raises(h, "NotSymbolError")
    ELSE IF _is_declared(h[m], symbol) THEN Raises(h, "DuplicateDeclarationError")
    ELSE Returns([h EXCEPT ![m].inputs = @ \cup {symbol}], -1)

add_state_var(h, m, variable) ==
    IF ~is_symbol(variable) THEN Raises(h, "NotSymbolError")
    ELSE IF _is_declared(h[m], variable) THEN Raises(h, "DuplicateDeclarationError")
    ELSE Returns([h EXCEPT ![m].state_vars = @ \cup {variable}], -1)

\* add_init without its test for the Next operator.
add_init_without_next_check(h, m, formula) ==
    IF \E v \in get_free_variables(formula) : ~is_state_variable(h[m], v)
    THEN Raises(h, "StateVariableError")
    ELSE IF has_ltl(formula) THEN Raises(h, "UnexpectedLtlError")
    ELSE IF get_type(formula) # BOOL THEN Raises(h, "PyvmtTypeError")
    ELSE Returns([h EXCEPT ![m].init = Append(@, formula)], -1)

add_init(h, m, formula) ==
    IF \E v \in get_free_variables(formula) : ~is_state_variable(h[m], v)
    THEN Raises(h, "StateVariableError")
    ELSE IF has_ltl(formula) THEN Raises(h, "UnexpectedLtlError")
    ELSE IF has_next(formula) THEN Raises(h, "UnexpectedNextError")
    ELSE IF get_type(formula) # BOOL THEN Raises(h, "PyvmtTypeError")
    ELSE Returns([h EXCEPT ![m].init = Append(@, formula)], -1)

add_trans(h, m, formula) ==
    IF ~_all_symbols_declared(h[m], formula) THEN Raises(h, "UndeclaredSymbolError")
    ELSE IF get_type(formula) # BOOL THEN Raises(h, "PyvmtTypeError")
    ELSE IF has_ltl(formula) THEN Raises(h, "UnexpectedLtlError")
    ELSE Returns([h EXCEPT ![m].trans = Append(@, formula)], -1)

\* add_init(f); add_trans(f); add_trans(next(f)): an exception ends the call
\* and keeps what the earlier calls stored.
add_invar(h, m, formula) ==
    LET r1 == add_init(h, m, formula)
        r2 == add_trans(r1.heap, m, formula)
        nf == mgr_Next(formula)
        r3 == add_trans(r2.heap, m, nf)
    IN  IF r1.err # "" THEN r1
        ELSE IF r2.err # "" THEN r2
        ELSE IF IsRaised(nf) THEN Raises(r2.heap, exc_name(nf))
        ELSE r3

PropertyIdxs(M) == {M.properties[i].idx : i \in 1..Len(M.properties)}

_is_property_idx_free(M, property_idx) == property_idx \notin PropertyIdxs(M)

\* The first free index at or after n (the while loop of _get_free_property_idx).
RECURSIVE FirstFreeFrom(_, _)
FirstFreeFrom(M, n) == IF _is_property_idx_free(M, n) THEN n ELSE FirstFreeFrom(M, n + 1)

\* _get_free_property_idx that leaves _next_property_idx on the index it chose.
_get_free_property_idx_no_advance(M) ==
    LET i == FirstFreeFrom(M, M.next_property_idx)
    IN  [idx |-> i, next |-> i]

\* _get_free_property_idx: [idx, next]: the index chosen and the new
\* value of _next_property_idx.
_get_free_property_idx(M) ==
    LET i == FirstFreeFrom(M, M.next_property_idx)
    IN  [idx |-> i, next |-> i + 1]

\* _check_property_idx: the exception raised for the index, "" when it is valid.
_check_property_idx(M, property_idx) ==
    IF property_idx < 0 THEN "InvalidPropertyIdxError"
    ELSE IF ~_is_property_idx_free(M, property_idx) THEN "DuplicatePropertyIdxError"
    ELSE ""

\* VmtProperty.__init__: the exception raised, "" when the property is built.
VmtProperty(prop_type, formula) ==
    IF prop_type \notin PROPERTY_TYPES THEN "InvalidPropertyTypeError"
    ELSE IF get_type(formula) # BOOL THEN "PyvmtTypeError"
    ELSE IF prop_type # LTL_PROPERTY /\ prop_type # LTLF_PROPERTY /\ has_ltl(formula)
    THEN "UnexpectedLtlError"
    ELSE ""

\* add_property; property_idx is <<>> for None and <<i>> for the index i.
add_property(h, m, prop_type, formula, property_idx) ==
    LET free == _get_free_property_idx(h[m])
        h1 == IF property_idx = <<>>
              THEN [h EXCEPT ![m].next_property_idx = free.next]
              ELSE h
        idx == IF property_idx = <<>> THEN free.idx ELSE property_idx[1]
        e1 == _check_property_idx(h1[m], idx)
        e3 == VmtProperty(prop_type, formula)
    IN  IF e1 # "" THEN Raises(h1, e1)
        ELSE IF ~_all_symbols_declared(h1[m], formula) THEN Raises(h1, "UndeclaredSymbolError")
        ELSE IF e3 # "" THEN Raises(h1, e3)
        ELSE Returns([h1 EXCEPT ![m].properties =
                        Append(@, [idx |-> idx, prop_type |-> prop_type, formula |-> formula])],
                     idx)

add_invar_property(h, m, formula, property_idx) ==
    add_property(h, m, INVAR_PROPERTY, formula, property_idx)

add_live_property(h, m, formula, property_idx) ==
    add_property(h, m, LIVE_PROPERTY, formula, property_idx)

add_ltl_property(h, m, formula, property_idx) ==
    add_property(h, m, LTL_PROPERTY, formula, property_idx)

(***************************************************************************)
(* Loops over the variables, constraints and properties of a model, as the *)
(* composer and the encoders run them: r is the outcome so far, and an     *)
(* exception ends the loop.  A Python set is iterated in some fixed order; *)
(* the order decides nothing but which duplicate is met first.             *)
(***************************************************************************)
Elements(fs) == {fs[i] : i \in 1..Len(fs)}

RECURSIVE add_state_vars(_, _, _)
add_state_vars(r, m, S) ==
    IF r.err # "" \/ S = {} THEN r
    ELSE LET v == CHOOSE v \in S : TRUE
         IN  add_state_vars(add_state_var(r.heap, m, v), m, S \ {v})

RECURSIVE add_input_vars(_, _, _)
add_input_vars(r, m, S) ==
    IF r.err # "" \/ S = {} THEN r
    ELSE LET v == CHOOSE v \in S : TRUE
         IN  add_input_vars(add_input_var(r.heap, m, v), m, S \ {v})

RECURSIVE add_inits(_, _, _)
add_inits(r, m, fs) ==
    IF r.err # "" \/ fs = <<>> THEN r
    ELSE add_inits(add_init(r.heap, m, Head(fs)), m, Tail(fs))

RECURSIVE add_transs(_, _, _)
add_transs(r, m, fs) ==
    IF r.err # "" \/ fs = <<>> THEN r
    ELSE add_transs(add_trans(r.heap, m, Head(fs)), m, Tail(fs))

RECURSIVE add_properties(_, _, _)
add_properties(r, m, ps) ==
    IF r.err # "" \/ ps = <<>> THEN r
    ELSE add_properties(
            add_property(r.heap, m, Head(ps).prop_type, Head(ps).formula, <<Head(ps).idx>>),
            m, Tail(ps))

\* The constraints and properties of model src added to model m
\* (the body of compose's second loop).
add_constraints_of(r, m, src) ==
    LET r1 == add_inits(r, m, r.heap[src].init)
        r2 == add_transs(r1, m, r1.heap[src].trans)
    IN  add_properties(r2, m, r2.heap[src].properties)

\* compose with the constraints of model_b added before those of model_a.
compose_b_first(h, model_a, model_b) ==
    LET new == Len(h) + 1
        r0 == Returns(Append(h, EmptyModel), -1)
        r1 == add_state_vars(r0, new, h[model_a].state_vars)
        r2 == add_state_vars(r1, new, h[model_b].state_vars)
        all_inputs == IF r2.err # "" THEN {}
                      ELSE (h[model_a].inputs \cup h[model_b].inputs) \ r2.heap[new].state_vars
        r3 == add_input_vars(r2, new, all_inputs)
        r4 == add_constraints_of(r3, new, model_b)
        r5 == add_constraints_of(r4, new, model_a)
    IN  IF r5.err # "" THEN Raises(h, r5.err) ELSE Returns(r5.heap, new)

\* compose: the models live in one environment, so the test for mismatched
\* environments passes.  The new model is returned as its identity in the
\* heap; when an exception is raised the new model is unreachable.
compose(h, model_a, model_b) ==
    LET new == Len(h) + 1
        r0 == Returns(Append(h, EmptyModel), -1)
        r1 == add_state_vars(r0, new, h[model_a].state_vars)
        r2 == add_state_vars(r1, new, h[model_b].state_vars)
        all_inputs == IF r2.err # "" THEN {}
                      ELSE (h[model_a].inputs \cup h[model_b].inputs) \ r2.heap[new].state_vars
        r3 == add_input_vars(r2, new, all_inputs)
        r4 == add_constraints_of(r3, new, model_a)
        r5 == add_constraints_of(r4, new, model_b)
    IN  IF r5.err # "" THEN Raises(h, r5.err) ELSE Returns(r5.heap, new)

(***************************************************************************)
(* LtlRewriter: the LTL operators rewritten to X, U, Y and S.              *)
(***************************************************************************)
\* A rewriter with no handler of its own: every node is rebuilt as it is.
LtlRewriter_no_handlers(formula) == IdentityDagWalker(formula, args(formula))

RECURSIVE LtlRewriter(_)
LtlRewriter(formula) ==
    LET results == [i \in 1..Len(args(formula)) |-> LtlRewriter(arg(formula, i))]
        t == node_type(formula)
    IN  IF AnyRaised(results) THEN FirstRaised(results)
        ELSE CASE t = "LTL_R" -> mgr_Not(mgr_U(mgr_Not(results[1]), mgr_Not(results[2])))
               [] t = "LTL_F" -> mgr_U(TRUE_, results[1])
               [] t = "LTL_G" -> mgr_Not(mgr_U(TRUE_, mgr_Not(results[1])))
               [] t = "LTL_Z" -> mgr_Not(mgr_Y(mgr_Not(results[1])))
               [] t = "LTL_T" -> mgr_Not(mgr_S(mgr_Not(results[1]), mgr_Not(results[2])))
               [] t = "LTL_O" -> mgr_S(TRUE_, results[1])
               [] t = "LTL_H" -> mgr_Not(mgr_S(TRUE_, mgr_Not(results[1])))
               [] t = "LTL_N" -> mgr_Not(mgr_X(mgr_Not(results[1])))
               [] OTHER -> IdentityDagWalker(formula, results)

(***************************************************************************)
(* NNFIzer: pysmt's NNFizer extended with the dualities of the LTL         *)
(* operators and of NEXT.  The children of a negation are the negated      *)
(* children of its argument.                                               *)
(***************************************************************************)
UnaryDual ==
    [LTL_X |-> "LTL_N", LTL_N |-> "LTL_X", LTL_G |-> "LTL_F", LTL_F |-> "LTL_G",
     LTL_Y |-> "LTL_Z", LTL_Z |-> "LTL_Y", LTL_H |-> "LTL_O", LTL_O |-> "LTL_H"]

BinaryDual == [LTL_U |-> "LTL_R", LTL_R |-> "LTL_U", LTL_S |-> "LTL_T", LTL_T |-> "LTL_S"]

RECURSIVE NNFIzer(_)
NNFIzer_walk_not(formula) ==
    LET s == arg(formula, 1)
        t == node_type(s)
        negated == [i \in 1..Len(args(s)) |-> NNFIzer(mgr_Not(arg(s, i)))]
    IN  CASE t \in DOMAIN UnaryDual -> create_node(UnaryDual[t], negated)
          [] t \in DOMAIN BinaryDual -> create_node(BinaryDual[t], negated)
          [] t = "NEXT" -> mgr_Next(negated[1])
          [] t = "SYMBOL" -> mgr_Not(s)
          [] t = "NOT" -> NNFIzer(arg(s, 1))
          [] t = "AND" -> mgr_Or(negated)
          [] t = "OR" -> mgr_And(negated)
          [] t = "IMPLIES" -> mgr_And(<<NNFIzer(arg(s, 1)), negated[2]>>)
          [] t = "IFF" -> mgr_Or(<<mgr_And(<<NNFIzer(arg(s, 1)), negated[2]>>),
                                   mgr_And(<<NNFIzer(arg(s, 2)), negated[1]>>)>>)
          [] t = "FORALL" -> mgr_Exists(s[2], negated[1])
          [] t = "EXISTS" -> mgr_ForAll(s[2], negated[1])
          [] OTHER -> mgr_Not(NNFIzer(s))

NNFIzer(formula) ==
    LET t == node_type(formula)
        results == [i \in 1..Len(args(formula)) |-> NNFIzer(arg(formula, i))]
    IN  CASE t = "NOT" -> NNFIzer_walk_not(formula)
          [] t = "IMPLIES" -> mgr_Or(<<NNFIzer(mgr_Not(arg(formula, 1))), results[2]>>)
          [] t = "IFF" -> mgr_And(<<mgr_Or(<<NNFIzer(mgr_Not(arg(formula, 1))), results[2]>>),
                                    mgr_Or(<<NNFIzer(mgr_Not(arg(formula, 2))), results[1]>>)>>)
          [] t \in {"AND", "OR", "EXISTS", "FORALL", "NEXT"} \cup ALL_LTL ->
                IdentityDagWalker(formula, results)
          [] OTHER -> formula

(***************************************************************************)
(* LtlEncodingWalker and LtlfEncodingWalker (ltlf = TRUE): the elementary  *)
(* subformulae of a formula, each with a fresh state variable.  el_map is  *)
(* a dict, kept as the sequence of its items in insertion order.  A walk   *)
(* visits the children of a node from the last to the first (they are      *)
(* popped from a stack), then the node.                                    *)
(***************************************************************************)
HasKey(el_map, key) == \E i \in 1..Len(el_map) : el_map[i][1] = key

Lookup(el_map, key) == el_map[CHOOSE i \in 1..Len(el_map) : el_map[i][1] = key][2]

\* self._el_map[key] = FreshSymbol(type, template), unless the key is there
el_store(st, key, template) ==
    IF HasKey(st.el_map, key) THEN st
    ELSE [st EXCEPT !.el_map = Append(@, <<key, FreshSymbol(template, st.fresh)>>),
                    !.fresh = @ + 1]

el_handler(ltlf, formula, st) ==
    LET t == node_type(formula)
    IN  CASE t = "LTL_X" -> el_store(st, formula, "el_x_")
          [] t = "LTL_U" -> el_store(st, mgr_X(formula), "el_u_")
          [] t = "LTL_Y" -> el_store(st, formula, "el_y_")
          [] t = "LTL_S" -> el_store(st, mgr_Y(formula), "el_s_")
          [] t = "LTL_N" /\ ltlf -> el_store(st, formula, "el_n_")
          [] t = "LTL_Z" /\ ltlf -> el_store(st, formula, "el_z_")
          [] t = "LTL_R" /\ ltlf -> el_store(st, mgr_N(formula), "el_r_")
          [] t = "LTL_T" /\ ltlf -> [st EXCEPT !.err = "NameError"]
          [] t \in ALL_LTL \ {"LTL_X", "LTL_U", "LTL_Y", "LTL_S"}
                /\ ~(ltlf /\ t \in {"LTL_N", "LTL_Z", "LTL_R", "LTL_T"}) ->
                [st EXCEPT !.err = "NotImplementedError"]
          [] OTHER -> st

RECURSIVE el_walk(_, _, _)
RECURSIVE el_walk_children(_, _, _, _)
el_walk_children(ltlf, formula, i, st) ==
    IF i = 0 THEN st
    ELSE el_walk_children(ltlf, formula, i - 1, el_walk(ltlf, arg(formula, i), st))

el_walk(ltlf, formula, st) ==
    LET st1 == el_walk_children(ltlf, formula, Len(args(formula)), st)
    IN  IF st1.err # "" THEN st1 ELSE el_handler(ltlf, formula, st1)

\* get_el_map, from the value fr of the environment's FreshSymbol counter
get_el_map(ltlf, formula, fr) ==
    el_walk(ltlf, formula, [el_map |-> <<>>, fresh |-> fr, err |-> ""])

\* get_sat: the memoized result of the walk
RECURSIVE get_sat(_, _, _)
get_sat(ltlf, el_map, formula) ==
    LET t == node_type(formula)
        results == [i \in 1..Len(args(formula)) |-> get_sat(ltlf, el_map, arg(formula, i))]
    IN  CASE t \in {"LTL_X", "LTL_Y"} -> Lookup(el_map, formula)
          [] t \in {"LTL_N", "LTL_Z"} /\ ltlf -> Lookup(el_map, formula)
          [] t = "LTL_U" ->
                mgr_Or(<<results[2], mgr_And(<<results[1], Lookup(el_map, mgr_X(formula))>>)>>)
          [] t = "LTL_S" ->
                mgr_Or(<<results[2], mgr_And(<<results[1], Lookup(el_map, mgr_Y(formula))>>)>>)
          [] t = "LTL_R" /\ ltlf ->
                mgr_And(<<results[2], mgr_Or(<<results[1], Lookup(el_map, mgr_N(formula))>>)>>)
          [] OTHER -> IdentityDagWalker(formula, results)

(***************************************************************************)
(* The encoders.  An encoder takes the heap h, the value fr of the         *)
(* environment's FreshSymbol counter, the model and the formula, and gives *)
(* [err, heap, ret, fresh].  When it raises, the objects it created are    *)
(* unreachable: the heap keeps the objects that were there before.         *)
(***************************************************************************)
\* A call on the model being built, made when no exception is pending; the
\* formula is the value of an expression that may itself have raised.
do_add_init(r, m, formula) ==
    IF r.err # "" THEN r
    ELSE IF IsRaised(formula) THEN Raises(r.heap, exc_name(formula))
    ELSE add_init(r.heap, m, formula)

do_add_trans(r, m, formula) ==
    IF r.err # "" THEN r
    ELSE IF IsRaised(formula) THEN Raises(r.heap, exc_name(formula))
    ELSE add_trans(r.heap, m, formula)

do_add_state_var(r, m, variable) ==
    IF r.err # "" THEN r ELSE add_state_var(r.heap, m, variable)

do_add_live_property(r, m, formula) ==
    IF r.err # "" THEN r ELSE add_live_property(r.heap, m, formula, <<>>)

do_add_invar_property(r, m, formula) ==
    IF r.err # "" THEN r ELSE add_invar_property(r.heap, m, formula, <<>>)

Encoded(r, fr) == [err |-> "", heap |-> r.heap, ret |-> r.ret, fresh |-> fr]

EncodeRaises(h, r, fr) ==
    [err |-> r.err, heap |-> SubSeq(r.heap, 1, Len(h)), ret |-> -1, fresh |-> fr]

\* _copy_model that gives back the model itself.
_copy_model_same_object(h, model) == Returns(h, model)

_copy_model(h, model) ==
    LET new_model == Len(h) + 1
        r0 == Returns(Append(h, EmptyModel), -1)
        r1 == add_state_vars(r0, new_model, h[model].state_vars)
        r2 == add_input_vars(r1, new_model, h[model].inputs)
        r3 == add_transs(r2, new_model, h[model].trans)
        r4 == add_inits(r3, new_model, h[model].init)
    IN  IF r4.err # "" THEN r4 ELSE Returns(r4.heap, new_model)

\* make_single_justice whose variables are never reset.
make_single_justice_no_reset(justice, fr) ==
    LET stvars == [i \in 1..Len(justice) |-> FreshSymbol("J_", fr + i - 1)]
    IN  [accept |-> mgr_And(stvars),
         stvars |-> stvars,
         init |-> [i \in 1..Len(justice) |-> mgr_Iff(stvars[i], FALSE_)],
         trans |-> [i \in 1..Len(justice) |->
                      mgr_Iff(mgr_Next(stvars[i]), mgr_Or(<<justice[i], stvars[i]>>))],
         fresh |-> fr + Len(justice)]

make_single_justice(justice, fr) ==
    LET stvars == [i \in 1..Len(justice) |-> FreshSymbol("J_", fr + i - 1)]
        accept == mgr_And(stvars)
    IN  [accept |-> accept,
         stvars |-> stvars,
         init |-> [i \in 1..Len(justice) |-> mgr_Iff(stvars[i], FALSE_)],
         trans |-> [i \in 1..Len(justice) |->
                      mgr_Iff(mgr_Next(stvars[i]),
                              mgr_Ite(accept, justice[i], mgr_Or(<<justice[i], stvars[i]>>)))],
         fresh |-> fr + Len(justice)]

\* el_trans that treats a past elementary subformula as a future one.
el_trans_all_future(ltlf, el_map, el_, stvar) ==
    mgr_EqualsOrIff(stvar, mgr_Next(get_sat(ltlf, el_map, arg(el_, 1))))

\* The trans constraint of the tableau for one elementary subformula.
el_trans(ltlf, el_map, el_, stvar) ==
    LET sat == get_sat(ltlf, el_map, arg(el_, 1))
        next_sat == mgr_Next(sat)
    IN  IF node_type(el_) \in FUTURE_LTL
        THEN IF ltlf THEN (IF IsRaised(next_sat) THEN next_sat ELSE mgr_Implies(stvar, next_sat))
                     ELSE mgr_EqualsOrIff(stvar, next_sat)
        ELSE mgr_EqualsOrIff(mgr_Next(stvar), sat)

\* The loop over el_map.items(), from item i on.
RECURSIVE add_tableau(_, _, _, _, _)
add_tableau(ltlf, r, m, el_map, i) ==
    IF r.err # "" \/ i > Len(el_map) THEN r
    ELSE LET r1 == add_state_var(r.heap, m, el_map[i][2])
             r2 == do_add_trans(r1, m, el_trans(ltlf, el_map, el_map[i][1], el_map[i][2]))
         IN  add_tableau(ltlf, r2, m, el_map, i + 1)

\* ltl_justice with a justice for every future elementary subformula.
RECURSIVE ltl_justice_every_future(_, _)
ltl_justice_every_future(el_map, i) ==
    IF i > Len(el_map) THEN <<>>
    ELSE LET el_ == el_map[i][1]
             sat == get_sat(FALSE, el_map, arg(el_, 1))
             rest == ltl_justice_every_future(el_map, i + 1)
         IN  IF node_type(el_) \in FUTURE_LTL
             THEN <<mgr_Or(<<mgr_Not(sat), get_sat(FALSE, el_map, arg(el_, 1))>>)>> \o rest
             ELSE rest

\* The justice constraints ltl_encode collects in that loop.
RECURSIVE ltl_justice(_, _)
ltl_justice(el_map, i) ==
    IF i > Len(el_map) THEN <<>>
    ELSE LET el_ == el_map[i][1]
             sat == get_sat(FALSE, el_map, arg(el_, 1))
             rest == ltl_justice(el_map, i + 1)
         IN  IF node_type(el_) \in FUTURE_LTL /\ node_type(arg(el_, 1)) = "LTL_U"
             THEN <<mgr_Or(<<mgr_Not(sat), get_sat(FALSE, el_map, arg(arg(el_, 1), 2))>>)>> \o rest
             ELSE rest

\* add_single_justice whose property is accept itself.
add_single_justice_accept(r, m, sj) ==
    LET r1 == add_state_vars(r, m, Elements(sj.stvars))
        r2 == add_inits(r1, m, sj.init)
        r3 == add_transs(r2, m, sj.trans)
    IN  do_add_live_property(r3, m, sj.accept)

\* add the variables and constraints of make_single_justice, then the property
add_single_justice(r, m, sj) ==
    LET r1 == add_state_vars(r, m, Elements(sj.stvars))
        r2 == add_inits(r1, m, sj.init)
        r3 == add_transs(r2, m, sj.trans)
    IN  do_add_live_property(r3, m, mgr_Not(sj.accept))

\* An encoding in progress is a record e: the outcome r of the last call,
\* the model m being built, the FreshSymbol counter, and what the encoder
\* keeps in its local variables.  A call made after a raise changes nothing.
\* The walk of the rewritten formula, then the copy of the model.
encode_start(ltlf, h, fr, model, rewritten) ==
    LET st == get_el_map(ltlf, rewritten, fr)
        r == IF st.err # "" THEN Raises(h, st.err) ELSE _copy_model(h, model)
    IN  [r |-> r, m |-> r.ret, fresh |-> st.fresh, el_map |-> st.el_map, formula |-> rewritten]

\* The loop over el_map.items(), then add_init(get_sat(formula)).
encode_tableau(ltlf, e) ==
    [e EXCEPT !.r = do_add_init(add_tableau(ltlf, e.r, e.m, e.el_map, 1), e.m,
                                get_sat(ltlf, e.el_map, e.formula))]

\* make_single_justice(justice) and what ltl_encode adds from it.
ltl_encode_justice(e) ==
    IF e.r.err # "" THEN e
    ELSE LET sj == make_single_justice(ltl_justice(e.el_map, 1), e.fresh)
         IN  [e EXCEPT !.r = add_single_justice(e.r, e.m, sj), !.fresh = sj.fresh]

\* return model, or the exception that left the encoder
encode_return(h, e) ==
    IF e.r.err # "" THEN EncodeRaises(h, e.r, e.fresh)
    ELSE Encoded(Returns(e.r.heap, e.m), e.fresh)

ltl_encode(h, fr, model, formula) ==
    encode_return(h,
        ltl_encode_justice(
            encode_tableau(FALSE,
                encode_start(FALSE, h, fr, model, LtlRewriter(mgr_Not(formula))))))

\* x_vars with the variables of every future elementary subformula.
x_vars_all_future(el_map) ==
    LET xs == SelectSeq(el_map, LAMBDA item : node_type(item[1]) \in FUTURE_LTL)
    IN  [i \in 1..Len(xs) |-> xs[i][2]]

\* the variables of el_map introduced for a strong next
x_vars(el_map) ==
    LET xs == SelectSeq(el_map, LAMBDA item : node_type(item[1]) = "LTL_X")
    IN  [i \in 1..Len(xs) |-> xs[i][2]]

RECURSIVE ltlf_invar(_, _)
ltlf_invar(vs, n) == IF n = 0 THEN FALSE_ ELSE mgr_Or(<<ltlf_invar(vs, n - 1), vs[n]>>)

\* invar = Or(... Or(FALSE, v_x) ...); add_invar_property(invar)
ltlf_encode_property(e) ==
    LET xs == x_vars(e.el_map)
    IN  [e EXCEPT !.r = do_add_invar_property(e.r, e.m, ltlf_invar(xs, Len(xs)))]

ltlf_encode(h, fr, model, formula) ==
    encode_return(h,
        ltlf_encode_property(
            encode_tableau(TRUE,
                encode_start(TRUE, h, fr, model, NNFIzer(LtlRewriter(mgr_Not(formula)))))))

(***************************************************************************)
(* LtlCircuitEncodingWalker: a label for every LTL, And and Or node, which *)
(* stands for the node rebuilt over the results of its children.  The      *)
(* memoization table gives a node met twice the label it got first.        *)
(***************************************************************************)
\* store_subformula
store_subformula(st, formula, results) ==
    LET z == FreshSymbol("LTL.Z.", st.fresh)
    IN  [st EXCEPT !.subformulae = Append(@, <<z, IdentityDagWalker(formula, results)>>),
                   !.memoization = Append(@, <<formula, z>>),
                   !.fresh = @ + 1]

RECURSIVE circuit_walk(_, _)
RECURSIVE circuit_walk_children(_, _, _)
circuit_walk_children(formula, i, st) ==
    IF i = 0 THEN st
    ELSE circuit_walk_children(formula, i - 1, circuit_walk(arg(formula, i), st))

circuit_walk(formula, st) ==
    IF HasKey(st.memoization, formula) THEN st
    ELSE LET st1 == circuit_walk_children(formula, Len(args(formula)), st)
             results == [i \in 1..Len(args(formula)) |-> Lookup(st1.memoization, arg(formula, i))]
         IN  IF node_type(formula) \in ALL_LTL \cup {"AND", "OR"}
             THEN store_subformula(st1, formula, results)
             ELSE [st1 EXCEPT !.memoization =
                                Append(@, <<formula, IdentityDagWalker(formula, results)>>)]

get_subformulae(formula, fr) ==
    LET st == circuit_walk(formula, [subformulae |-> <<>>, memoization |-> <<>>, fresh |-> fr])
    IN  IF Len(st.subformulae) = 0
        THEN store_subformula(st, mgr_And(<<formula, TRUE_>>), <<formula, TRUE_>>)
        ELSE st

\* The value of make_monitor; err is the exception it raises, if any.
Monitor(stvars, init, trans, accept, failed, pending) ==
    [stvars |-> stvars, init |-> init, trans |-> trans, accept |-> accept,
     failed |-> failed, pending |-> pending, err |-> ""]

\* The monitors that latch a pending obligation in one variable y_pending.
pending_monitor(y_pending, pending, accept, failed) ==
    Monitor(<<y_pending>>, <<mgr_Not(y_pending)>>, <<mgr_Iff(mgr_Next(y_pending), pending)>>,
            accept, failed, pending)

\* The monitors of the past operators: one variable, updated with now.
past_monitor(stvar, init, now, failed) ==
    Monitor(<<stvar>>, <<init>>, <<mgr_Iff(mgr_Next(stvar), now)>>, TRUE_, failed, FALSE_)

make_monitor(activator, formula, fr) ==
    LET t == node_type(formula)
        v(template) == FreshSymbol(template, fr)
    IN  CASE t \in {"AND", "OR"} ->
                Monitor(<<>>, <<>>, <<>>, TRUE_, mgr_And(<<activator, mgr_Not(formula)>>), FALSE_)
          [] t = "LTL_X" ->
                LET yz == v("LTL.X.YZ.")
                IN  Monitor(<<yz>>, <<mgr_Not(yz)>>, <<mgr_Iff(mgr_Next(yz), activator)>>,
                            TRUE_, mgr_And(<<yz, mgr_Not(arg(formula, 1))>>), activator)
          [] t = "LTL_G" ->
                LET y_pending == v("LTL.G.YP.")
                    pending == mgr_Or(<<y_pending, activator>>)
                IN  pending_monitor(y_pending, pending, TRUE_,
                                    mgr_And(<<pending, mgr_Not(arg(formula, 1))>>))
          [] t = "LTL_F" ->
                LET y_pending == v("LTL.F.YP.")
                    pending == mgr_And(<<mgr_Or(<<activator, y_pending>>), mgr_Not(arg(formula, 1))>>)
                IN  pending_monitor(y_pending, pending, mgr_Not(pending), FALSE_)
          [] t = "LTL_U" ->
                LET y_pending == v("LTL.U.YP.")
                    pending == mgr_And(<<mgr_Or(<<activator, y_pending>>), mgr_Not(arg(formula, 2))>>)
                IN  pending_monitor(y_pending, pending, mgr_Not(pending),
                                    mgr_And(<<pending, mgr_Not(arg(formula, 1))>>))
          [] t = "LTL_R" ->
                LET y_pending == v("LTL.R.YP.")
                    pending == mgr_And(<<mgr_Or(<<activator, y_pending>>), mgr_Not(arg(formula, 1))>>)
                IN  pending_monitor(y_pending, pending, mgr_Not(pending),
                                    mgr_And(<<pending, mgr_Not(arg(formula, 2))>>))
          [] t = "LTL_Y" ->
                LET yarg == v("LTL.Y.arg.")
                IN  past_monitor(yarg, mgr_Not(yarg), arg(formula, 1),
                                 mgr_And(<<activator, mgr_Not(yarg)>>))
          [] t = "LTL_Z" ->
                LET zarg == v("LTL.Z.arg.")
                IN  past_monitor(zarg, zarg, arg(formula, 1), mgr_And(<<activator, mgr_Not(zarg)>>))
          [] t = "LTL_H" ->
                LET ynt == v("LTL.H.ynt.")
                    nt == mgr_Or(<<ynt, mgr_Not(arg(formula, 1))>>)
                IN  past_monitor(ynt, mgr_Not(ynt), nt, mgr_And(<<activator, nt>>))
          [] t = "LTL_O" ->
                LET yt == v("LTL.O.yt.")
                    t_ == mgr_Or(<<yt, arg(formula, 1)>>)
                IN  past_monitor(yt, mgr_Not(yt), t_, mgr_And(<<activator, mgr_Not(t_)>>))
          [] t = "LTL_S" ->
                LET yt == v("LTL.S.yt.")
                    t_ == mgr_Or(<<arg(formula, 2), mgr_And(<<yt, arg(formula, 1)>>)>>)
                IN  past_monitor(yt, mgr_Not(yt), t_, mgr_And(<<activator, mgr_Not(t_)>>))
          [] t = "LTL_T" ->
                LET ynt == v("LTL.T.ynt.")
                    nt == mgr_Or(<<mgr_Not(arg(formula, 2)),
                                   mgr_And(<<ynt, mgr_Not(arg(formula, 1))>>)>>)
                IN  past_monitor(ynt, mgr_Not(ynt), nt, mgr_And(<<activator, nt>>))
          [] OTHER -> [Monitor(<<>>, <<>>, <<>>, TRUE_, FALSE_, FALSE_)
                          EXCEPT !.err = "NotImplementedError"]

\* circuit_start that keeps the label of the root and makes is_init the
\* activator of a conjunction above it.
circuit_start_keeps_root_label(h, fr, model, formula) ==
    LET r == _copy_model(h, model)
        st == get_subformulae(NNFIzer(mgr_Not(formula)), fr)
        is_init == FreshSymbol("is_init.", st.fresh)
        root == st.subformulae[Len(st.subformulae)][1]
    IN  [r |-> r, m |-> r.ret, fresh |-> st.fresh + 1,
         subf |-> Append(st.subformulae, <<is_init, mgr_And(<<root, TRUE_>>)>>),
         is_init |-> is_init, all_accept |-> <<>>, all_failed |-> <<>>]

\* The copy of the model, the subformulae of the NNF of the negation, and
\* is_init in the place of the last activator.
circuit_start(h, fr, model, formula) ==
    LET r == _copy_model(h, model)
        st == get_subformulae(NNFIzer(mgr_Not(formula)), fr)
        is_init == FreshSymbol("is_init.", st.fresh)
    IN  IF r.err # ""
        THEN [r |-> r, m |-> r.ret, fresh |-> fr, subf |-> <<>>, is_init |-> is_init,
              all_accept |-> <<>>, all_failed |-> <<>>]
        ELSE [r |-> r, m |-> r.ret, fresh |-> st.fresh + 1,
              subf |-> [st.subformulae EXCEPT ![Len(st.subformulae)] = <<is_init, @[2]>>],
              is_init |-> is_init, all_accept |-> <<>>, all_failed |-> <<>>]

\* The activators as state variables, and the constraints on is_init.
circuit_activators(e) ==
    LET r1 == add_state_vars(e.r, e.m, {e.subf[i][1] : i \in 1..Len(e.subf)})
        r2 == do_add_init(r1, e.m, e.is_init)
    IN  [e EXCEPT !.r = do_add_trans(r2, e.m, mgr_Iff(mgr_Next(e.is_init), FALSE_))]

\* The loop that creates the monitors, from pair i of subf on.
RECURSIVE add_monitors(_, _)
add_monitors(e, i) ==
    IF e.r.err # "" \/ i > Len(e.subf) THEN e
    ELSE LET mon == make_monitor(e.subf[i][1], e.subf[i][2], e.fresh)
             r1 == add_state_vars(e.r, e.m, Elements(mon.stvars))
             r2 == add_inits(r1, e.m, mon.init)
         IN  IF mon.err # "" THEN [e EXCEPT !.r = Raises(e.r.heap, mon.err)]
             ELSE add_monitors([e EXCEPT !.r = add_transs(r2, e.m, mon.trans),
                                         !.fresh = @ + Len(mon.stvars),
                                         !.all_accept = Append(@, mon.accept),
                                         !.all_failed = Append(@, mon.failed)],
                               i + 1)

\* circuit_justice whose has_failed does not hold itself.
circuit_justice_no_latch(e) ==
    IF e.r.err # "" THEN e
    ELSE LET has_failed == FreshSymbol("has_failed.", e.fresh)
             r1 == add_state_var(e.r.heap, e.m, has_failed)
             r2 == do_add_init(r1, e.m, mgr_Not(has_failed))
             r3 == do_add_trans(r2, e.m, mgr_Iff(mgr_Next(has_failed),
                                                 mgr_Or(Append(e.all_failed, FALSE_))))
             sj == make_single_justice(
                     [i \in 1..Len(e.all_accept) |->
                        mgr_And(<<e.all_accept[i], mgr_Not(has_failed)>>)],
                     e.fresh + 1)
         IN  [e EXCEPT !.r = add_single_justice(r3, e.m, sj), !.fresh = sj.fresh]

\* has_failed, then make_single_justice and what the encoder adds from it.
circuit_justice(e) ==
    IF e.r.err # "" THEN e
    ELSE LET has_failed == FreshSymbol("has_failed.", e.fresh)
             r1 == add_state_var(e.r.heap, e.m, has_failed)
             r2 == do_add_init(r1, e.m, mgr_Not(has_failed))
             r3 == do_add_trans(r2, e.m, mgr_Iff(mgr_Next(has_failed),
                                                 mgr_Or(Append(e.all_failed, has_failed))))
             sj == make_single_justice(
                     [i \in 1..Len(e.all_accept) |->
                        mgr_And(<<e.all_accept[i], mgr_Not(has_failed)>>)],
                     e.fresh + 1)
         IN  [e EXCEPT !.r = add_single_justice(r3, e.m, sj), !.fresh = sj.fresh]

ltl_circuit_encode(h, fr, model, formula) ==
    encode_return(h,
        circuit_justice(
            add_monitors(circuit_activators(circuit_start(h, fr, model, formula)), 1)))

(***************************************************************************)
(* The calls of the API as actions.  Each records itself in last.          *)
(***************************************************************************)
NoCall ==
    [op |-> "", m |-> 0, m2 |-> 0, f |-> TRUE_, ptype |-> "", idx |-> <<>>,
     err |-> "", ret |-> -1]

Call(op, m, f, ptype, idx, r) ==
    /\ heap' = r.heap
    /\ last' = [op |-> op, m |-> m, m2 |-> 0, f |-> f, ptype |-> ptype, idx |-> idx,
                err |-> r.err, ret |-> r.ret]
    /\ UNCHANGED <<fresh, pn, run, out, trace>>

a == Symbol("a")
b == Symbol("b")

\* What the callers declare: two symbols, and a formula that is no symbol.
Declarable == {a, b, mgr_Not(a)}

\* What the callers add as INIT and TRANS constraints: well-formed ones, one
\* with a NEXT, one with an LTL operator and one that is not Bool.
ConstraintFormulas == {a, mgr_Or(<<a, b>>), mgr_Iff(mgr_Next(a), b), mgr_X(a), IntConst("1")}

\* What the callers add as properties.
PropertyFormulas == {a, b, mgr_X(a), IntConst("1")}
PropertyIdxArgs == {<<>>} \cup {<<i>> : i \in -1..MaxIdx}

AddStateVar(m, V) ==
    \E v \in V : Call("add_state_var", m, v, "", <<>>, add_state_var(heap, m, v))

AddInputVar(m, V) ==
    \E v \in V : Call("add_input_var", m, v, "", <<>>, add_input_var(heap, m, v))

AddInit(m, Fs) ==
    /\ Len(heap[m].init) < MaxInit
    /\ \E f \in Fs : Call("add_init", m, f, "", <<>>, add_init(heap, m, f))

AddTrans(m, Fs) ==
    /\ Len(heap[m].trans) < MaxTrans
    /\ \E f \in Fs : Call("add_trans", m, f, "", <<>>, add_trans(heap, m, f))

AddInvar(m, Fs) ==
    /\ Len(heap[m].init) < MaxInit
    /\ Len(heap[m].trans) + 2 <= MaxTrans
    /\ \E f \in Fs : Call("add_invar", m, f, "", <<>>, add_invar(heap, m, f))

AddProperty(m, Fs, Types, Idxs, maxp) ==
    /\ Len(heap[m].properties) < maxp
    /\ heap[m].next_property_idx <= MaxIdx
    /\ \E f \in Fs, t \in Types, i \in Idxs :
          Call("add_property", m, f, t, i, add_property(heap, m, t, f, i))

Compose(ma, mb) ==
    LET r == compose(heap, ma, mb)
    IN  /\ heap' = r.heap
        /\ last' = [op |-> "compose", m |-> ma, m2 |-> mb, f |-> TRUE_, ptype |-> "",
                    idx |-> <<>>, err |-> r.err, ret |-> r.ret]
        /\ UNCHANGED <<fresh, pn, run, out, trace>>

Encoders == {"ltl_encode", "ltl_circuit_encode", "ltlf_encode"}

encode(encoder, h, fr, model, formula) ==
    CASE encoder = "ltl_encode" -> ltl_encode(h, fr, model, formula)
      [] encoder = "ltl_circuit_encode" -> ltl_circuit_encode(h, fr, model, formula)
      [] encoder = "ltlf_encode" -> ltlf_encode(h, fr, model, formula)

Encode(encoder, m, Fs) ==
    \E f \in Fs :
        LET r == encode(encoder, heap, fresh, m, f)
        IN  /\ heap' = r.heap
            /\ fresh' = r.fresh
            /\ last' = [op |-> encoder, m |-> m, m2 |-> 0, f |-> f, ptype |-> "",
                        idx |-> <<>>, err |-> r.err, ret |-> r.ret]
            /\ UNCHANGED <<pn, run, out, trace>>

(***************************************************************************)
(* Spec: one model and the calls that build it.                            *)
(***************************************************************************)
NoRun == [stage |-> "none"]

NoOut == <<>>

NoTrace == [steps |-> <<>>, loopback |-> -1]

NoPush == [stage |-> "none", f |-> TRUE_, r1 |-> TRUE_, r2 |-> TRUE_]

Init ==
    /\ heap = <<EmptyModel>>
    /\ fresh = 0
    /\ last = NoCall
    /\ out = NoOut
    /\ trace = NoTrace
    /\ run = NoRun
    /\ pn = NoPush

Next ==
    \/ AddStateVar(1, Declarable)
    \/ AddInputVar(1, Declarable)
    \/ AddInit(1, ConstraintFormulas)
    \/ AddTrans(1, ConstraintFormulas)
    \/ AddInvar(1, ConstraintFormulas)
    \/ AddProperty(1, {a, b}, {INVAR_PROPERTY}, {<<>>, <<0>>}, MaxSpecProps)

Spec == Init /\ [][Next]_vars

(***************************************************************************)
(* SpecProps: one model with one state variable, and its properties.       *)
(***************************************************************************)
NextProps ==
    \/ AddStateVar(1, {a})
    \/ AddProperty(1, {a, b}, {INVAR_PROPERTY, LTL_PROPERTY}, PropertyIdxArgs, MaxProps)

SpecProps == Init /\ [][NextProps]_vars

(***************************************************************************)
(* SpecCompose: two models are built, then composed; the run ends with the *)
(* call of compose.                                                        *)
(***************************************************************************)
InitCompose ==
    /\ heap = <<EmptyModel, EmptyModel>>
    /\ fresh = 0
    /\ last = NoCall
    /\ out = NoOut
    /\ trace = NoTrace
    /\ run = NoRun
    /\ pn = NoPush

Building == last.op # "compose"

NextCompose ==
    \/ Building /\ \E m \in {1, 2} : AddStateVar(m, {a, b})
    \/ Building /\ \E m \in {1, 2} : AddInputVar(m, {a, b})
    \/ Building /\ AddInit(1, {a})
    \/ Building /\ AddInit(2, {b})
    \/ Building /\ AddTrans(1, {mgr_Iff(mgr_Next(a), b)})
    \/ Building /\ AddTrans(2, {mgr_Or(<<a, b>>)})
    \/ Building /\ AddProperty(1, {a}, {INVAR_PROPERTY}, {<<0>>}, MaxSpecProps)
    \/ Building /\ AddProperty(2, {b}, {LIVE_PROPERTY}, {<<0>>, <<1>>}, MaxSpecProps)
    \/ Building /\ \E ma \in {1, 2}, mb \in {1, 2} : Compose(ma, mb)

SpecCompose == InitCompose /\ [][NextCompose]_vars

(***************************************************************************)
(* SpecPush: a formula is given to a NextPusher, and the result is given   *)
(* to it again.  The formulas are those the constructors build up to depth *)
(* MaxDepth, and two nodes with a NEXT below a NEXT, which only            *)
(* create_node builds.                                                     *)
(***************************************************************************)
x == Symbol("x")

PushAtoms == {a, b, mgr_Equals(x, IntConst("0")), mgr_Equals(mgr_Next(x), IntConst("0"))}

RECURSIVE PushFormulas(_)
PushFormulas(depth) ==
    IF depth = 0 THEN PushAtoms
    ELSE LET S == PushFormulas(depth - 1)
         IN  S \cup {mgr_Not(f) : f \in S}
               \cup {mgr_Next(f) : f \in {g \in S : ~has_next(g)}}
               \cup {mgr_And(<<f, g>>) : f \in S, g \in PushAtoms}
               \cup {mgr_Or(<<g, f>>) : f \in S, g \in {a}}
               \cup {mgr_Exists(<<"x">>, f) : f \in S}

NestedNext ==
    {create_node("NEXT", <<mgr_Next(a)>>),
     create_node("NEXT", <<mgr_And(<<mgr_Next(a), b>>)>>)}

PushInputs == PushFormulas(MaxDepth) \cup NestedNext

InitPush ==
    /\ heap = <<EmptyModel>>
    /\ fresh = 0
    /\ last = NoCall
    /\ out = NoOut
    /\ trace = NoTrace
    /\ run = NoRun
    /\ pn \in {[stage |-> "given", f |-> f, r1 |-> TRUE_, r2 |-> TRUE_] : f \in PushInputs}

Push ==
    /\ pn.stage = "given"
    /\ pn' = [pn EXCEPT !.stage = "pushed", !.r1 = push_next(pn.f)]
    /\ UNCHANGED <<heap, fresh, last, run, out, trace>>

PushAgain ==
    /\ pn.stage = "pushed"
    /\ ~IsRaised(pn.r1)
    /\ pn' = [pn EXCEPT !.stage = "again", !.r2 = push_next(pn.r1)]
    /\ UNCHANGED <<heap, fresh, last, run, out, trace>>

NextPush == Push \/ PushAgain

SpecPush == InitPush /\ [][NextPush]_vars

(***************************************************************************)
(* SpecEncode: an LTL formula over a and b of depth up to MaxLtlDepth is   *)
(* encoded into a model built through the API; the run ends with the call  *)
(* of the encoder.                                                         *)
(***************************************************************************)
RECURSIVE LtlFormulas(_)
LtlFormulas(depth) ==
    IF depth = 0 THEN {a}
    ELSE LET S == LtlFormulas(depth - 1)
         IN  S \cup {mgr_Not(f) : f \in S}
               \cup {create_node(t, <<f>>) : f \in S,
                      t \in {"LTL_X", "LTL_N", "LTL_F", "LTL_G", "LTL_Y", "LTL_Z", "LTL_O", "LTL_H"}}
               \cup {create_node(t, <<f, b>>) : f \in S,
                      t \in {"LTL_U", "LTL_R", "LTL_S", "LTL_T", "AND", "IMPLIES"}}

LtlInputs == LtlFormulas(MaxLtlDepth)

\* A model built through the API: the variables declared, then the
\* constraints and the invariant properties added.
BuildModel(state_vars, inputs, init, trans, props) ==
    LET r1 == add_state_vars(Returns(<<EmptyModel>>, -1), 1, state_vars)
        r2 == add_input_vars(r1, 1, inputs)
        r3 == add_inits(r2, 1, init)
        r4 == add_transs(r3, 1, trans)
    IN  IF r4.err # "" \/ props = <<>> THEN r4
        ELSE add_invar_property(r4.heap, 1, props[1], <<>>)

\* The models that the API builds without an exception from these arguments.
EncodeModels ==
    LET built == {BuildModel(sv, iv, i, t, p) :
                    sv \in SUBSET {a, b}, iv \in SUBSET {a, b},
                    i \in {<<>>, <<a>>}, t \in {<<>>, <<mgr_Iff(mgr_Next(a), b)>>},
                    p \in {<<>>, <<a>>}}
    IN  {r.heap[1] : r \in {o \in built : o.err = ""}}

InitEncode ==
    /\ heap \in {<<M>> : M \in EncodeModels}
    /\ fresh = 0
    /\ last = NoCall
    /\ out = NoOut
    /\ trace = NoTrace
    /\ run = NoRun
    /\ pn = NoPush

NotEncoded == last.op \notin Encoders

LtlEncode == NotEncoded /\ Encode("ltl_encode", 1, LtlInputs)

LtlCircuitEncode == NotEncoded /\ Encode("ltl_circuit_encode", 1, LtlInputs)

LtlfEncode == NotEncoded /\ Encode("ltlf_encode", 1, LtlInputs)

NextEncode == LtlEncode \/ LtlCircuitEncode \/ LtlfEncode

SpecEncode == InitEncode /\ [][NextEncode]_vars

(***************************************************************************)
(* Claims about the container.  In an action formula heap is the heap      *)
(* before the call, heap' the heap after it and last' the call.            *)
(***************************************************************************)
Models == 1..Len(heap)

SmallestUnused(M) ==
    /\ M.next_property_idx \notin PropertyIdxs(M)
    /\ \A j \in 0..(M.next_property_idx - 1) : j \in PropertyIdxs(M)

AutoIndexIsNew ==
    last'.op = "add_property" /\ last'.idx = <<>> /\ last'.err = ""
        => last'.ret \notin PropertyIdxs(heap[last'.m])

NextIdxMonotonic ==
    last'.op = "add_property"
        => heap'[last'.m].next_property_idx >= heap[last'.m].next_property_idx

\* C3 as stated, on the calls that return: an automatic index is new,
\* next_property_idx never decreases and is always the smallest unused index.
C3_NextIdxSmallestUnused ==
    [][(last'.op = "add_property" /\ last'.err = "")
          => AutoIndexIsNew /\ NextIdxMonotonic /\ SmallestUnused(heap'[last'.m])]_vars

\* C3 amended: an add_property call without an explicit index returns an
\* index that was not in properties before the call: the first unused index
\* at or after the old next_property_idx; next_property_idx never decreases,
\* and after such a call it is one more than the index returned.
C3_AutoIndexFresh ==
    [][/\ AutoIndexIsNew
       /\ NextIdxMonotonic
       /\ (last'.op = "add_property" /\ last'.idx = <<>> /\ last'.err = "")
            => /\ last'.ret >= heap[last'.m].next_property_idx
               /\ \A j \in heap[last'.m].next_property_idx..(last'.ret - 1) :
                      j \in PropertyIdxs(heap[last'.m])
               /\ heap'[last'.m].next_property_idx = last'.ret + 1]_vars

\* A call without an explicit index returned an index past one taken by an
\* earlier call with an explicit index.
C3_Witness ==
    /\ last.op = "add_property" /\ last.idx = <<>> /\ last.err = ""
    /\ \E j \in PropertyIdxs(heap[last.m]) : j > last.ret
    /\ \E j \in PropertyIdxs(heap[last.m]) : j < last.ret

IsDeclaration(op) == op \in {"add_state_var", "add_input_var"}

\* C4: the state variables and the inputs of a model are disjoint, and
\* declaring a symbol that is already a state variable or an input raises
\* DuplicateDeclarationError and changes nothing.
C4_DeclarationsDisjoint ==
    [][IsDeclaration(last'.op)
          => /\ \A m \in Models : heap'[m].state_vars \cap heap'[m].inputs = {}
             /\ _is_declared(heap[last'.m], last'.f)
                  => last'.err = "DuplicateDeclarationError" /\ heap' = heap]_vars

\* A state variable was declared again, as an input, and the call was rejected.
C4_Witness ==
    /\ last.op = "add_input_var"
    /\ last.err = "DuplicateDeclarationError"
    /\ last.f \in heap[last.m].state_vars
    /\ heap[last.m].inputs # {}

HasUndeclared(M, f) == \E v \in get_free_variables(f) : ~_is_declared(M, v)

Stored(M, f) ==
    \/ \E i \in 1..Len(M.init) : M.init[i] = f
    \/ \E i \in 1..Len(M.trans) : M.trans[i] = f
    \/ \E i \in 1..Len(M.properties) : M.properties[i].formula = f

ConstraintsUnchanged ==
    /\ heap'[last'.m].init = heap[last'.m].init
    /\ heap'[last'.m].trans = heap[last'.m].trans
    /\ heap'[last'.m].properties = heap[last'.m].properties

\* C5 as stated: an INIT, TRANS or property formula with an undeclared free
\* symbol is rejected with UndeclaredSymbolError and is not stored.
C5_UndeclaredSymbolRejected ==
    [][(last'.op \in {"add_init", "add_trans", "add_property"}
            /\ HasUndeclared(heap[last'.m], last'.f))
          => last'.err = "UndeclaredSymbolError" /\ ConstraintsUnchanged]_vars

\* C5 amended: a TRANS formula with an undeclared free symbol, and a property
\* formula with one whose index is automatic or valid and unused, is rejected
\* with UndeclaredSymbolError; an INIT formula with a free symbol that is not
\* a declared state variable is rejected with StateVariableError; in every
\* case the formula is not stored.
C5_UndeclaredRejectedPerKind ==
    [][/\ (last'.op = "add_trans" /\ HasUndeclared(heap[last'.m], last'.f))
            => last'.err = "UndeclaredSymbolError" /\ heap' = heap
       /\ (last'.op = "add_property" /\ HasUndeclared(heap[last'.m], last'.f)
               /\ (last'.idx = <<>> \/ _check_property_idx(heap[last'.m], last'.idx[1]) = ""))
            => last'.err = "UndeclaredSymbolError" /\ ConstraintsUnchanged
       /\ (last'.op = "add_init"
               /\ \E v \in get_free_variables(last'.f) : ~is_state_variable(heap[last'.m], v))
            => last'.err = "StateVariableError" /\ heap' = heap]_vars

\* An INIT constraint over an undeclared symbol was rejected, with
\* StateVariableError, in a model that has a state variable.
C5_Witness ==
    /\ last.op = "add_init"
    /\ last.err = "StateVariableError"
    /\ HasUndeclared(heap[last.m], last.f)
    /\ heap[last.m].state_vars # {}

WellFormedInit(f) == get_type(f) = BOOL /\ ~has_next(f) /\ ~has_ltl(f)
WellFormedTrans(f) == get_type(f) = BOOL /\ ~has_ltl(f)

\* C6: every stored INIT constraint is Bool, without NEXT and without LTL,
\* every stored TRANS constraint is Bool and without LTL, and a rejected
\* add_init, add_trans or add_invar leaves both lists as they were.
C6_ConstraintsWellFormed ==
    [][last'.op \in {"add_init", "add_trans", "add_invar"}
          => /\ \A m \in Models :
                  /\ \A i \in 1..Len(heap'[m].init) : WellFormedInit(heap'[m].init[i])
                  /\ \A i \in 1..Len(heap'[m].trans) : WellFormedTrans(heap'[m].trans[i])
             /\ last'.err # ""
                  => /\ heap'[last'.m].init = heap[last'.m].init
                     /\ heap'[last'.m].trans = heap[last'.m].trans]_vars

\* An INIT constraint with a NEXT over declared state variables was rejected.
C6_Witness ==
    /\ last.op = "add_init"
    /\ last.err = "UnexpectedNextError"
    /\ has_next(last.f)

(***************************************************************************)
(* Claims about the composer (SpecCompose).                                *)
(***************************************************************************)
ShareNothing(A, B) ==
    /\ A.state_vars \cap B.state_vars = {}
    /\ PropertyIdxs(A) \cap PropertyIdxs(B) = {}

ComposedShape(A, B, R) ==
    /\ R.state_vars = A.state_vars \cup B.state_vars
    /\ R.inputs = (A.inputs \cup B.inputs) \ (A.state_vars \cup B.state_vars)
    /\ R.init = A.init \o B.init
    /\ R.trans = A.trans \o B.trans

C8_ComposeSelf ==
    [][(last'.op = "compose" /\ last'.m = last'.m2) =>
        /\ last'.err = ""
        /\ LET M == heap[last'.m]
               R == heap'[last'.ret]
           IN  /\ R.state_vars = M.state_vars
               /\ R.inputs = M.inputs
               /\ Elements(R.init) = Elements(M.init)
               /\ Elements(R.trans) = Elements(M.trans)]_vars

(***************************************************************************)
(* Claims about the NEXT pusher (SpecPush).                                *)
(***************************************************************************)
\* C9: push_next is idempotent: whenever push_next(f) succeeds,
\* push_next(push_next(f)) succeeds and equals push_next(f).
C9_PushNextIdempotent == pn.stage = "again" => pn.r2 = pn.r1

C9_Witness ==
    /\ pn.stage = "again"
    /\ pn.r1 # pn.f
    /\ has_next(pn.r1)
    /\ is_quantifier(pn.r1)
    /\ pn.r2 = pn.r1

RECURSIVE NextOnFreeSymbols(_, _)
NextOnFreeSymbols(bound, f) ==
    IF node_type(f) = "NEXT" THEN is_symbol(arg(f, 1)) /\ arg(f, 1) \notin bound
    ELSE IF is_quantifier(f) THEN NextOnFreeSymbols(bound \cup quantifier_vars(f), arg(f, 1))
    ELSE \A i \in 1..Len(args(f)) : NextOnFreeSymbols(bound, arg(f, i))

\* f with every NEXT distributed over the operators below it: under_next
\* tells whether a NEXT encloses f, bound the symbols quantified around f.
RECURSIVE Distributed(_, _, _)
Distributed(bound, under_next, f) ==
    IF is_symbol(f) THEN (IF under_next /\ f \notin bound THEN mgr_Next(f) ELSE f)
    ELSE IF node_type(f) = "NEXT" THEN Distributed(bound, TRUE, arg(f, 1))
    ELSE IF is_quantifier(f)
    THEN IdentityDagWalker(f, <<Distributed(bound \cup quantifier_vars(f), under_next, arg(f, 1))>>)
    ELSE IdentityDagWalker(f, [i \in 1..Len(args(f)) |-> Distributed(bound, under_next, arg(f, i))])

SpecExample == mgr_Next(mgr_Exists(<<"x">>, mgr_And(<<a, mgr_Equals(x, IntConst("0"))>>)))

SpecExamplePushed == mgr_Exists(<<"x">>, mgr_And(<<mgr_Next(a), mgr_Equals(x, IntConst("0"))>>))

\* C10: whenever push_next(f) succeeds, every NEXT node of the result wraps a
\* symbol that no enclosing quantifier binds, and the result is f with NEXT
\* distributed over the children of every operator, kept on free symbols and
\* dropped from bound symbols and constants; push_next(NEXT(exists x. a and
\* x=0)) is exists x. NEXT(a) and x=0.
C10_NextOnFreeLeaves ==
    (pn.stage # "given" /\ ~IsRaised(pn.r1)) =>
        /\ NextOnFreeSymbols({}, pn.r1)
        /\ pn.r1 = Distributed({}, FALSE, pn.f)
        /\ pn.f = SpecExample => pn.r1 = SpecExamplePushed

C10_Witness ==
    /\ pn.stage = "pushed"
    /\ pn.f = SpecExample
    /\ pn.r1 = SpecExamplePushed

(***************************************************************************)
(* Claims about the encoders (SpecEncode).                                 *)
(***************************************************************************)
\* The model R holds the variables and constraints of M and one property,
\* at index 0.
CopyWithOneProperty(M, R) ==
    /\ M.state_vars \subseteq R.state_vars
    /\ M.inputs \subseteq R.inputs
    /\ Elements(M.init) \subseteq Elements(R.init)
    /\ Elements(M.trans) \subseteq Elements(R.trans)
    /\ Len(R.properties) = 1
    /\ R.properties[1].idx = 0

\* C1: for every model M and LTL formula f over the state variables of M,
\* each of ltl_encode, ltl_circuit_encode and ltlf_encode returns a model
\* that holds every state variable, input variable, INIT constraint and TRANS
\* constraint of M, and exactly one property, at index 0.
C1_EncodeReturnsCopy ==
    [][(last'.op \in Encoders /\ get_free_variables(last'.f) \subseteq heap[last'.m].state_vars) =>
        /\ last'.err = ""
        /\ CopyWithOneProperty(heap[last'.m], heap'[last'.ret])]_vars

\* What C1 says of the model an encoder returns holds whenever one returns.
ReturnedModelIsCopy ==
    [][(last'.op \in Encoders /\ last'.err = "") =>
        CopyWithOneProperty(heap[last'.m], heap'[last'.ret])]_vars

\* C2: a call of an encoder on M, whether it returns a model or raises,
\* leaves M as it was: its state variables, inputs, INIT, TRANS, properties
\* and next_property_idx; the model returned is a new object.
C2_EncodeKeepsInput ==
    [][last'.op \in Encoders =>
        /\ heap'[last'.m] = heap[last'.m]
        /\ SubSeq(heap', 1, Len(heap)) = heap
        /\ last'.err = "" => last'.ret = Len(heap) + 1]_vars

C2_Witness ==
    /\ last.op = "ltl_circuit_encode"
    /\ last.err = "NotImplementedError"
    /\ heap[last.m].state_vars # {}
    /\ heap[last.m].inputs # {}
    /\ heap[last.m].init # <<>>
    /\ heap[last.m].trans # <<>>
    /\ heap[last.m].properties # <<>>
    /\ heap[last.m].next_property_idx = 1

(***************************************************************************)
(* SpecNext: a formula is built by calls of the constructors of the        *)
(* formula manager, Next among them, each on the result of the call        *)
(* before.  pn.f is the argument of the last call and pn.r1 its result.    *)
(***************************************************************************)
RECURSIVE formula_depth(_)
formula_depth(f) ==
    IF Len(args(f)) = 0 THEN 0
    ELSE LET RECURSIVE deepest(_)
             deepest(i) == IF i = 0 THEN 0
                           ELSE LET d == formula_depth(arg(f, i))
                                    e == deepest(i - 1)
                                IN  IF d > e THEN d ELSE e
         IN  1 + deepest(Len(args(f)))

InitNext ==
    /\ heap = <<EmptyModel>>
    /\ fresh = 0
    /\ last = NoCall
    /\ out = NoOut
    /\ trace = NoTrace
    /\ run = NoRun
    /\ pn \in {[stage |-> "Symbol", f |-> TRUE_, r1 |-> f, r2 |-> TRUE_] :
                 f \in {a, mgr_Equals(x, IntConst("0"))}}

Constructed(name, result) ==
    /\ ~IsRaised(pn.r1)
    /\ formula_depth(pn.r1) <= MaxDepth
    /\ pn' = [stage |-> name, f |-> pn.r1, r1 |-> result, r2 |-> TRUE_]
    /\ UNCHANGED <<heap, fresh, last, run, out, trace>>

MakeNext == Constructed("Next", mgr_Next(pn.r1))

MakeNot == Constructed("Not", mgr_Not(pn.r1))

MakeAnd == \E g \in {b, mgr_Next(b)} : Constructed("And", mgr_And(<<pn.r1, g>>))

MakeOr == Constructed("Or", mgr_Or(<<a, pn.r1>>))

MakeExists == Constructed("Exists", mgr_Exists(<<"x">>, pn.r1))

MakeX == Constructed("X", mgr_X(pn.r1))

NextNext == MakeNext \/ MakeNot \/ MakeAnd \/ MakeOr \/ MakeExists \/ MakeX

SpecNext == InitNext /\ [][NextNext]_vars

(***************************************************************************)
(* Claims about the constructor Next (SpecNext).                           *)
(***************************************************************************)
\* No NEXT node of f has a NEXT node below it.
RECURSIVE NoNestedNext(_)
NoNestedNext(f) ==
    /\ node_type(f) = "NEXT" => ~has_next(arg(f, 1))
    /\ \A i \in 1..Len(args(f)) : NoNestedNext(arg(f, i))

\* A NEXT node occurs in f, at any depth.
RECURSIVE ContainsNext(_)
ContainsNext(f) ==
    \/ f[1] = "NEXT"
    \/ \E i \in 1..Len(f[3]) : ContainsNext(f[3][i])

\* C11: Next(f) raises UnexpectedNextError whenever f holds a NEXT at any
\* depth and gives the node NEXT(f) otherwise, so that no formula the
\* constructors build has a NEXT inside another NEXT.
C11_NoNestedNext ==
    /\ pn.stage = "Next" =>
          IF ContainsNext(pn.f) THEN pn.r1 = <<"RAISED", <<"UnexpectedNextError">>, <<>>>>
          ELSE pn.r1 = <<"NEXT", <<>>, <<pn.f>>>>
    /\ ~IsRaised(pn.r1) => NoNestedNext(pn.r1)

\* Next was refused for a formula whose NEXT lies two operators deep, and
\* (in other runs) accepted.
C11_Witness ==
    /\ pn.stage = "Next"
    /\ IsRaised(pn.r1)
    /\ node_type(pn.f) # "NEXT"
    /\ \A i \in 1..Len(args(pn.f)) : node_type(arg(pn.f, i)) # "NEXT"
    /\ ContainsNext(pn.f)

(***************************************************************************)
(* IsSafetyLtl: a DagWalker whose handler for U and F gives True and whose *)
(* handler for every other node gives any(args).  is_safety_ltl negates    *)
(* the result of the walk.                                                 *)
(***************************************************************************)
\* is_safety_ltl that looks at the top node only.
is_safety_ltl_top_only(formula) == node_type(formula) \notin {"LTL_U", "LTL_F"}

RECURSIVE IsSafetyLtl_walk(_)
IsSafetyLtl_walk(formula) ==
    IF node_type(formula) \in {"LTL_U", "LTL_F"} THEN TRUE
    ELSE \E i \in 1..Len(args(formula)) : IsSafetyLtl_walk(arg(formula, i))

is_safety_ltl(formula) == ~IsSafetyLtl_walk(formula)

(***************************************************************************)
(* SpecRewrite: an LTL formula over a and b of depth up to MaxRewriteDepth *)
(* is given to the LtlRewriter, or to the NNFIzer and then to IsSafetyLtl.  *)
(***************************************************************************)
SafetyExamples ==
    {mgr_G(a), mgr_F(a), mgr_G(mgr_Or(<<a, mgr_F(b)>>)), mgr_H(mgr_Not(mgr_U(a, b)))}

RewriteInputs == LtlFormulas(MaxRewriteDepth) \cup SafetyExamples

InitRewrite ==
    /\ heap = <<EmptyModel>>
    /\ fresh = 0
    /\ last = NoCall
    /\ out = NoOut
    /\ trace = NoTrace
    /\ run = NoRun
    /\ pn \in {[stage |-> "given", f |-> f, r1 |-> TRUE_, r2 |-> TRUE_] : f \in RewriteInputs}

Rewrite ==
    /\ pn.stage = "given"
    /\ pn' = [pn EXCEPT !.stage = "rewritten", !.r1 = LtlRewriter(pn.f)]
    /\ UNCHANGED <<heap, fresh, last, run, out, trace>>

Nnf ==
    /\ pn.stage = "given"
    /\ pn' = [pn EXCEPT !.stage = "nnf", !.r1 = NNFIzer(pn.f)]
    /\ UNCHANGED <<heap, fresh, last, run, out, trace>>

IsSafety ==
    /\ pn.stage = "nnf"
    /\ pn' = [stage |-> "safety", f |-> pn.f, r1 |-> pn.r1, safe |-> is_safety_ltl(pn.r1)]
    /\ UNCHANGED <<heap, fresh, last, run, out, trace>>

NextRewrite == Rewrite \/ Nnf \/ IsSafety

SpecRewrite == InitRewrite /\ [][NextRewrite]_vars

(***************************************************************************)
(* Claims about the rewriter and the safety detector (SpecRewrite).        *)
(***************************************************************************)
\* The types of the LTL nodes of f.
RECURSIVE LtlOperatorsOf(_)
LtlOperatorsOf(f) ==
    (IF f[1] \in ALL_LTL THEN {f[1]} ELSE {})
        \cup UNION {LtlOperatorsOf(f[3][i]) : i \in 1..Len(f[3])}

\* C12: the result of the LtlRewriter on a formula over the twelve future
\* and past operators has no LTL operator other than X, U, Y and S.
C12_RewriterBasis ==
    pn.stage = "rewritten" =>
        /\ ~IsRaised(pn.r1)
        /\ LtlOperatorsOf(pn.r1) \subseteq {"LTL_X", "LTL_U", "LTL_Y", "LTL_S"}

\* (N a) R b was rewritten to not((X not a) U not b).
C12_Witness ==
    /\ pn.stage = "rewritten"
    /\ pn.f = <<"LTL_R", <<>>, <<mgr_N(a), b>>>>
    /\ pn.r1 = mgr_Not(mgr_U(mgr_X(mgr_Not(a)), mgr_Not(b)))

\* f is in negation normal form: a negation is on an atom only, and there
\* is no implication and no equivalence.
RECURSIVE InNnf(_)
InNnf(f) ==
    /\ f[1] = "NOT" => Len(f[3][1][3]) = 0
    /\ f[1] \notin {"IMPLIES", "IFF"}
    /\ \A i \in 1..Len(f[3]) : InNnf(f[3][i])

\* C13: for a formula in negation normal form, is_safety_ltl gives false
\* if and only if a U or an F occurs in the formula, at any depth; true for
\* G a, false for F a and for G(a or F b).
C13_SafetyDetector ==
    pn.stage = "safety" =>
        /\ InNnf(pn.r1)
        /\ pn.safe = FALSE <=> ({"LTL_U", "LTL_F"} \cap LtlOperatorsOf(pn.r1) # {})
        /\ pn.f = mgr_G(a) => pn.safe = TRUE
        /\ pn.f = mgr_F(a) => pn.safe = FALSE
        /\ pn.f = mgr_G(mgr_Or(<<a, mgr_F(b)>>)) => pn.safe = FALSE

\* G(a or F b) was found not to be safety: its F is below an Or and a G.
C13_Witness ==
    /\ pn.stage = "safety"
    /\ pn.f = mgr_G(mgr_Or(<<a, mgr_F(b)>>))
    /\ pn.r1 = pn.f
    /\ pn.safe = FALSE

(***************************************************************************)
(* XWeakener and safetyltl_encode.  None stands for the value returned     *)
(* when the formula is not in the safety fragment: no model.               *)
(***************************************************************************)
RECURSIVE XWeakener(_)
XWeakener(formula) ==
    LET results == [i \in 1..Len(args(formula)) |-> XWeakener(arg(formula, i))]
    IN  IF node_type(formula) = "LTL_X" THEN mgr_N(results[1])
        ELSE IdentityDagWalker(formula, results)

None == 0

\* safetyltl_encode that hands the NNF to ltlf_encode as it is.
safetyltl_encode_strong(h, fr, model, formula) ==
    LET nnf == NNFIzer(formula)
    IN  IF ~is_safety_ltl(nnf) THEN [err |-> "", heap |-> h, ret |-> None, fresh |-> fr]
        ELSE ltlf_encode(h, fr, model, nnf)

safetyltl_encode(h, fr, model, formula) ==
    LET nnf == NNFIzer(formula)
    IN  IF ~is_safety_ltl(nnf) THEN [err |-> "", heap |-> h, ret |-> None, fresh |-> fr]
        ELSE ltlf_encode(h, fr, model, XWeakener(nnf))

(***************************************************************************)
(* SpecSafety: safetyltl_encode is called with an LTL formula on a model    *)
(* that declares a and b, as state variables or as inputs.                 *)
(***************************************************************************)
SafetyModels ==
    {BuildModel(sv, {a, b} \ sv, i, <<mgr_Iff(mgr_Next(a), a)>>, p).heap[1] :
        sv \in {{a, b}, {a}}, i \in {<<>>, <<a>>}, p \in {<<>>, <<a>>}}

SafetyInputs ==
    LtlFormulas(MaxLtlDepth) \cup SafetyExamples
        \cup {mgr_G(mgr_X(a)), mgr_Not(mgr_R(a, b)), mgr_Not(mgr_F(mgr_X(a))),
              mgr_Implies(mgr_X(a), mgr_N(mgr_Y(b)))}

InitSafety ==
    /\ heap \in {<<M>> : M \in SafetyModels}
    /\ fresh = 0
    /\ last = NoCall
    /\ out = NoOut
    /\ trace = NoTrace
    /\ run = NoRun
    /\ pn = NoPush

SafetyLtlEncode ==
    /\ last.op = ""
    /\ \E f \in SafetyInputs :
          LET r == safetyltl_encode(heap, fresh, 1, f)
          IN  /\ heap' = r.heap
              /\ fresh' = r.fresh
              /\ last' = [op |-> "safetyltl_encode", m |-> 1, m2 |-> 0, f |-> f, ptype |-> "",
                          idx |-> <<>>, err |-> r.err, ret |-> r.ret]
              /\ UNCHANGED <<pn, run, out, trace>>

NextSafety == SafetyLtlEncode

SpecSafety == InitSafety /\ [][NextSafety]_vars

(***************************************************************************)
(* Claims about safetyltl_encode (SpecSafety).                             *)
(***************************************************************************)
\* f with every X node turned into an N node.
RECURSIVE WithWeakNext(_)
WithWeakNext(f) ==
    <<IF f[1] = "LTL_X" THEN "LTL_N" ELSE f[1], f[2],
      [i \in 1..Len(f[3]) |-> WithWeakNext(f[3][i])]>>

\* C14: safetyltl_encode(M, f) returns no model exactly when a U or an F
\* occurs in the NNF of f; otherwise its outcome is the outcome of
\* ltlf_encode on the NNF of f with every X replaced by N, a formula with
\* no X.
C14_SafetyEncode ==
    [][last'.op = "safetyltl_encode" =>
        LET nnf == NNFIzer(last'.f)
            weak == WithWeakNext(nnf)
            live == {"LTL_U", "LTL_F"} \cap LtlOperatorsOf(nnf) # {}
            r == ltlf_encode(heap, fresh, last'.m, weak)
        IN  /\ (last'.err = "" /\ last'.ret = None) <=> live
            /\ live => heap' = heap /\ fresh' = fresh
            /\ ~live => /\ "LTL_X" \notin LtlOperatorsOf(weak)
                        /\ <<last'.err, last'.ret, heap', fresh'>> = <<r.err, r.ret, r.heap, r.fresh>>]_vars

\* A model was returned for a safety formula with an X.
C14_Witness ==
    /\ last.op = "safetyltl_encode"
    /\ last.err = ""
    /\ last.ret = 2
    /\ "LTL_X" \in LtlOperatorsOf(last.f)
    /\ Len(heap[2].properties) = 1
    /\ heap[2].properties[1].prop_type = INVAR_PROPERTY

\* No model was returned for a formula whose NNF has a U: not (a R b) .
C14_WitnessInapplicable ==
    /\ last.op = "safetyltl_encode"
    /\ last.ret = None
    /\ last.f = mgr_Not(mgr_R(a, b))

(***************************************************************************)
(* The runs of a transition model.  A state gives a Boolean value to       *)
(* every variable; an initial state satisfies every INIT constraint, and a *)
(* state and its successor satisfy every TRANS constraint, in which        *)
(* NEXT(f) is the value of f in the successor.                             *)
(***************************************************************************)
RECURSIVE Holds(_, _, _)
Holds(f, cur, nxt) ==
    LET t == node_type(f)
    IN  CASE t = "SYMBOL" -> cur[symbol_name(f)]
          [] t = "BOOL_CONSTANT" -> f = TRUE_
          [] t = "NOT" -> ~Holds(arg(f, 1), cur, nxt)
          [] t = "AND" -> \A i \in 1..Len(args(f)) : Holds(arg(f, i), cur, nxt)
          [] t = "OR" -> \E i \in 1..Len(args(f)) : Holds(arg(f, i), cur, nxt)
          [] t = "IFF" -> Holds(arg(f, 1), cur, nxt) <=> Holds(arg(f, 2), cur, nxt)
          [] t = "IMPLIES" -> Holds(arg(f, 1), cur, nxt) => Holds(arg(f, 2), cur, nxt)
          [] t = "ITE" -> IF Holds(arg(f, 1), cur, nxt) THEN Holds(arg(f, 2), cur, nxt)
                          ELSE Holds(arg(f, 3), cur, nxt)
          [] t = "NEXT" -> Holds(arg(f, 1), nxt, nxt)

InitialStates(names, init) ==
    {v \in [names -> BOOLEAN] : \A i \in 1..Len(init) : Holds(init[i], v, v)}

Successors(names, trans, v) ==
    {w \in [names -> BOOLEAN] : \A i \in 1..Len(trans) : Holds(trans[i], v, w)}

(***************************************************************************)
(* SpecJustice: make_single_justice is given up to MaxJustice justice      *)
(* constraints over a and b, and the variables and constraints it returns  *)
(* are run, a and b taking any value in every state.  run.prev is the      *)
(* state before run.val.                                                   *)
(***************************************************************************)
JusticeAtoms == {a, b, mgr_Not(a)}

RECURSIVE JusticeLists(_)
JusticeLists(n) ==
    IF n = 0 THEN {<<>>}
    ELSE LET S == JusticeLists(n - 1)
         IN  S \cup {Append(js, j) : js \in {l \in S : Len(l) = n - 1}, j \in JusticeAtoms}

JusticeInputs == JusticeLists(MaxJustice)

InitJustice ==
    /\ heap = <<EmptyModel>>
    /\ fresh \in {0, 1}
    /\ last = NoCall
    /\ out = NoOut
    /\ trace = NoTrace
    /\ pn = NoPush
    /\ run \in {[stage |-> "given", justice |-> js] : js \in JusticeInputs}

JusticeNames(sj) == {"a", "b"} \cup {symbol_name(sj.stvars[i]) : i \in 1..Len(sj.stvars)}

MakeSingleJustice ==
    /\ run.stage = "given"
    /\ LET sj == make_single_justice(run.justice, fresh)
       IN  /\ fresh' = sj.fresh
           /\ \E v \in InitialStates(JusticeNames(sj), sj.init) :
                 run' = [stage |-> "init", justice |-> run.justice, sj |-> sj,
                         prev |-> v, val |-> v, parity |-> 0]
    /\ UNCHANGED <<heap, last, pn, out, trace>>

StepJustice ==
    /\ run.stage \in {"init", "step"}
    /\ \E w \in Successors(JusticeNames(run.sj), run.sj.trans, run.val) :
          run' = [run EXCEPT !.stage = "step", !.prev = run.val, !.val = w,
                             !.parity = 1 - run.parity]
    /\ UNCHANGED <<heap, fresh, last, pn, out, trace>>

NextJustice == MakeSingleJustice \/ StepJustice

SpecJustice == InitJustice /\ [][NextJustice]_vars

\* The infinite runs of the flattening: a run never stops, and the parity
\* of its length tells a step that stays in a state from no step.
SpecJusticeRuns == SpecJustice /\ WF_vars(NextJustice)

(***************************************************************************)
(* Claims about make_single_justice (SpecJustice).                         *)
(***************************************************************************)
\* What make_single_justice returned for the justices js: one variable s_i
\* per justice, none of them in a justice, INIT s_i <-> false, TRANS
\* NEXT(s_i) <-> ite(accept, j_i, j_i or s_i), accept the conjunction.
FlattenedShape(js, sj) ==
    LET k == Len(js)
        s == sj.stvars
        conj == IF k = 1 THEN s[1] ELSE <<"AND", <<>>, s>>
    IN  /\ Len(s) = k /\ Len(sj.init) = k /\ Len(sj.trans) = k
        /\ \A i, j \in 1..k : i # j => s[i] # s[j]
        /\ \A i, j \in 1..k : s[i][1] = "SYMBOL" /\ s[i] \notin get_free_variables(js[j])
        /\ sj.accept = conj
        /\ \A i \in 1..k :
              /\ sj.init[i] = <<"IFF", <<>>, <<s[i], FALSE_>>>>
              /\ sj.trans[i] = <<"IFF", <<>>,
                                 <<<<"NEXT", <<>>, <<s[i]>>>>,
                                   <<"ITE", <<>>, <<conj, js[i], <<"OR", <<>>, <<js[i], s[i]>>>>>>>>>>>>

\* C15: for k >= 1 justices make_single_justice gives one fresh variable
\* s_i per justice, INIT s_i <-> false and TRANS NEXT(s_i) <-> ite(accept,
\* j_i, j_i or s_i) with accept the conjunction of the s_i; in a run accept
\* is false in the initial state, and in the state after one where accept
\* holds each s_i has the value j_i had there.
C15_JusticeFlattening ==
    [][(run'.stage # "given" /\ Len(run'.justice) >= 1) =>
        /\ FlattenedShape(run'.justice, run'.sj)
        /\ run'.stage = "init" => ~Holds(run'.sj.accept, run'.val, run'.val)
        /\ (run'.stage = "step" /\ Holds(run.sj.accept, run.val, run.val)) =>
              \A i \in 1..Len(run.justice) :
                 run'.val[symbol_name(run.sj.stvars[i])] = Holds(run.justice[i], run.val, run.val)]_vars

\* A run of two justices reached a state after one where accept held, with
\* one variable reset to false.
C15_Witness ==
    /\ run.stage = "step"
    /\ Len(run.justice) = 2
    /\ run.justice[1] # run.justice[2]
    /\ \E i \in 1..2 : ~run.val[symbol_name(run.sj.stvars[i])]
    /\ Holds(run.sj.accept, run.prev, run.prev)

(***************************************************************************)
(* Claims about the tableau of ltl_encode (SpecEncode).                    *)
(***************************************************************************)
\* sat(f): an elementary formula stands for its variable, an Until, a
\* Since and (in the LTLf encoding, where R, N and Z are kept) a Release
\* for their expansions, and every other node for itself over the sat of
\* its children.
RECURSIVE SatOf(_, _)
SatOf(el_map, f) ==
    LET sub == [i \in 1..Len(f[3]) |-> SatOf(el_map, f[3][i])]
    IN  CASE f[1] \in {"LTL_X", "LTL_Y", "LTL_N", "LTL_Z"} -> Lookup(el_map, f)
          [] f[1] = "LTL_R" ->
                <<"AND", <<>>, <<sub[2], <<"OR", <<>>,
                     <<sub[1], Lookup(el_map, <<"LTL_N", <<>>, <<f>>>>)>>>>>>>>
          [] f[1] = "LTL_U" ->
                <<"OR", <<>>, <<sub[2], <<"AND", <<>>,
                     <<sub[1], Lookup(el_map, <<"LTL_X", <<>>, <<f>>>>)>>>>>>>>
          [] f[1] = "LTL_S" ->
                <<"OR", <<>>, <<sub[2], <<"AND", <<>>,
                     <<sub[1], Lookup(el_map, <<"LTL_Y", <<>>, <<f>>>>)>>>>>>>>
          [] OTHER -> <<f[1], f[2], sub>>

\* The constraints fs from the one after position n on.
After(fs, n) == SubSeq(fs, n + 1, Len(fs))

\* The symbols of the constraints fs.
SymbolsOf(fs) == UNION {get_free_variables(fs[i]) : i \in 1..Len(fs)}

\* The constraints are those of a justice flattening over variables that
\* are not in vs: init s_i <-> false and trans NEXT(s_i) <-> ite(...).
IsFlattening(init, trans, vs) ==
    /\ Len(init) = Len(trans)
    /\ \A i \in 1..Len(init) :
          /\ init[i][1] = "IFF" /\ init[i][3][1][1] = "SYMBOL" /\ init[i][3][2] = FALSE_
          /\ init[i][3][1] \notin vs
          /\ trans[i][1] = "IFF" /\ trans[i][3][1] = <<"NEXT", <<>>, <<init[i][3][1]>>>>
          /\ trans[i][3][2][1] = "ITE"

\* C16: the model ltl_encode returns has, for every elementary formula X psi
\* with variable v, the TRANS constraint v <-> NEXT(sat(psi)), for every
\* elementary formula Y psi the TRANS constraint NEXT(v) <-> sat(psi), and
\* the INIT constraint sat(rewritten negated property); the only other
\* constraints that it adds to those of the input model, which do not
\* mention the tableau variables, are those of the justice flattening.
C16_TableauConstraints ==
    [][(last'.op = "ltl_encode" /\ last'.err = "") =>
        LET M == heap[last'.m]
            R == heap'[last'.ret]
        IN  \A rewritten \in {LtlRewriter(mgr_Not(last'.f))} :
            \A el_map \in {get_el_map(FALSE, rewritten, fresh).el_map} :
            \A vs \in {{el_map[i][2] : i \in 1..Len(el_map)}} :
            \A added_init \in {After(R.init, Len(M.init))} :
            \A added_trans \in {After(R.trans, Len(M.trans))} :
            LET n == Len(el_map)
            IN
            /\ SubSeq(R.init, 1, Len(M.init)) = M.init
            /\ SubSeq(R.trans, 1, Len(M.trans)) = M.trans
            /\ vs \cap (SymbolsOf(M.init) \cup SymbolsOf(M.trans)) = {}
            /\ Cardinality(vs) = n
            /\ vs \subseteq R.state_vars \ M.state_vars
            /\ \A i \in 1..n :
                  LET e == el_map[i][1]
                      v == el_map[i][2]
                      sat == SatOf(el_map, e[3][1])
                  IN  /\ e[1] \in {"LTL_X", "LTL_Y"}
                      /\ e[1] = "LTL_X" =>
                            added_trans[i] = <<"IFF", <<>>, <<v, <<"NEXT", <<>>, <<sat>>>>>>>>
                      /\ e[1] = "LTL_Y" =>
                            added_trans[i] = <<"IFF", <<>>, <<<<"NEXT", <<>>, <<v>>>>, sat>>>>
            /\ added_init[1] = SatOf(el_map, rewritten)
            /\ IsFlattening(After(added_init, 1), After(added_trans, n), vs)]_vars

\* ltl_encode returned a model for a S b, whose tableau has a past variable.
C16_Witness ==
    /\ last.op = "ltl_encode"
    /\ last.err = ""
    /\ last.f = mgr_S(a, b)
    /\ Len(heap[last.ret].trans) > Len(heap[last.m].trans)

\* The Until subformulae of f.
RECURSIVE UntilsOf(_)
UntilsOf(f) ==
    (IF f[1] = "LTL_U" THEN {f} ELSE {})
        \cup UNION {UntilsOf(f[3][i]) : i \in 1..Len(f[3])}

\* C17: the justice constraints that ltl_encode hands to the flattening are
\* one constraint not sat(phi U psi) or sat(psi) for each Until subformula
\* of the rewritten negated property, and no other.
C17_JusticePerUntil ==
    [][(last'.op = "ltl_encode" /\ last'.err = "") =>
        LET M == heap[last'.m]
            R == heap'[last'.ret]
        IN  \A rewritten \in {LtlRewriter(mgr_Not(last'.f))} :
            \A el_map \in {get_el_map(FALSE, rewritten, fresh).el_map} :
            \A flat \in {After(After(R.trans, Len(M.trans)), Len(el_map))} :
            LET justice == [i \in 1..Len(flat) |-> flat[i][3][2][3][2]]
                expected == {<<"OR", <<>>, <<<<"NOT", <<>>, <<SatOf(el_map, u)>>>>,
                                         SatOf(el_map, u[3][2])>>>> : u \in UntilsOf(rewritten)}
            IN
            /\ Len(justice) = Cardinality(UntilsOf(rewritten))
            /\ {justice[i] : i \in 1..Len(justice)} = expected]_vars

\* ltl_encode returned a model for a U b, with one justice; none comes
\* from the X of X a.
C17_Witness ==
    /\ last.op = "ltl_encode"
    /\ last.err = ""
    /\ last.f = mgr_U(a, b)
    /\ \E i \in 1..Len(heap[last.ret].trans) : heap[last.ret].trans[i][3][2][1] = "ITE"

(***************************************************************************)
(* SpecCircuit: ltl_circuit_encode is called on a model over a and b, and  *)
(* the model it returns is run.                                            *)
(***************************************************************************)
CircuitModels ==
    {BuildModel({a, b}, {}, <<>>, <<mgr_Iff(mgr_Next(a), b)>>, <<>>).heap[1],
     BuildModel({a}, {b}, <<a>>, <<>>, <<>>).heap[1]}

CircuitInputs ==
    {a, mgr_G(a), mgr_F(a), mgr_U(a, b), mgr_R(a, b), mgr_Y(a), mgr_O(a), mgr_S(a, b),
     mgr_X(a), mgr_G(mgr_Or(<<a, b>>)), mgr_F(mgr_G(a))}

InitCircuit ==
    /\ heap \in {<<M>> : M \in CircuitModels}
    /\ fresh \in {0, 1}
    /\ last = NoCall
    /\ out = NoOut
    /\ trace = NoTrace
    /\ run = NoRun
    /\ pn = NoPush

CircuitEncode == last.op = "" /\ Encode("ltl_circuit_encode", 1, CircuitInputs)

\* The names of the variables of the model M.
VariableNames(M) == {symbol_name(v) : v \in M.state_vars \cup M.inputs}

Encoded_model == heap[last.ret]

StartRun ==
    /\ last.op = "ltl_circuit_encode" /\ last.err = ""
    /\ run.stage = "none"
    /\ \E v \in InitialStates(VariableNames(Encoded_model), Encoded_model.init) :
          run' = [stage |-> "init", prev |-> v, val |-> v]
    /\ UNCHANGED <<heap, fresh, last, pn, out, trace>>

StepRun ==
    /\ run.stage \in {"init", "step"}
    /\ \E w \in Successors(VariableNames(Encoded_model), Encoded_model.trans, run.val) :
          run' = [stage |-> "step", prev |-> run.val, val |-> w]
    /\ UNCHANGED <<heap, fresh, last, pn, out, trace>>

NextCircuit == CircuitEncode \/ StartRun \/ StepRun

SpecCircuit == InitCircuit /\ [][NextCircuit]_vars

(***************************************************************************)
(* Claims about the runs of the circuit encoding (SpecCircuit).            *)
(***************************************************************************)
\* The symbols of the model R made from the template, with their numbers.
Numbered(R, template) ==
    {k \in 0..fresh : <<"SYMBOL", <<template \o ToString(k)>>, <<>>>> \in R.state_vars}

\* The symbols that occur in the constraints and the properties of R.
OccurringIn(R) ==
    SymbolsOf(R.init) \cup SymbolsOf(R.trans)
        \cup UNION {get_free_variables(R.properties[i].formula) : i \in 1..Len(R.properties)}

\* C18: a model that ltl_circuit_encode returns has one state variable
\* is_init, true in the initial state of every run and false in every later
\* state; it stands in the place of the label of the root subformula, which
\* is no variable of the model.
C18_IsInit ==
    (last.op = "ltl_circuit_encode" /\ last.err = "") =>
        LET R == heap[last.ret]
        IN  /\ Cardinality(Numbered(R, "is_init.")) = 1
            /\ \A k \in Numbered(R, "is_init.") :
                  LET is_init == <<"SYMBOL", <<"is_init." \o ToString(k)>>, <<>>>>
                      root == <<"SYMBOL", <<"LTL.Z." \o ToString(k - 1)>>, <<>>>>
                  IN  /\ root \notin R.state_vars \cup R.inputs \cup OccurringIn(R)
                      /\ \A j \in 0..(k - 2) :
                            (\E i \in Numbered(R, "LTL.Z.") : i <= j) =>
                                <<"SYMBOL", <<"LTL.Z." \o ToString(j)>>, <<>>>> \in R.state_vars
                      /\ \E i \in 1..Len(R.trans) :
                            /\ is_init \in get_free_variables(R.trans[i])
                            /\ R.trans[i] # <<"IFF", <<>>, <<<<"NEXT", <<>>, <<is_init>>>>, FALSE_>>>>
                      /\ run.stage = "init" => run.val["is_init." \o ToString(k)]
                      /\ run.stage = "step" => ~run.val["is_init." \o ToString(k)]

\* A run of the model returned for G(a or b), whose negation has two
\* subformulae, is in its third state.
C18_Witness ==
    /\ last.op = "ltl_circuit_encode" /\ last.err = ""
    /\ last.f = mgr_G(mgr_Or(<<a, b>>))
    /\ run.stage = "step"
    /\ run.prev # run.val
    /\ \E k \in Numbered(heap[last.ret], "is_init.") : ~run.prev["is_init." \o ToString(k)]

\* C19: a model that ltl_circuit_encode returns has one state variable
\* has_failed, false in the initial state of every run; in a later state
\* it holds exactly when, in the state before, it held or the failed
\* condition of one of the monitors held, so it stays true once true; and
\* in a state where it holds no justice accept_i and not has_failed holds.
C19_HasFailedLatch ==
    (last.op = "ltl_circuit_encode" /\ last.err = "") =>
        LET R == heap[last.ret]
            monitors == Cardinality(Numbered(R, "LTL.Z.")) + 1
        IN  /\ Cardinality(Numbered(R, "has_failed.")) = 1
            /\ \A k \in Numbered(R, "has_failed.") :
                  LET name == "has_failed." \o ToString(k)
                      has_failed == <<"SYMBOL", <<name>>, <<>>>>
                      latch == {i \in 1..Len(R.trans) :
                                  R.trans[i][3][1] = <<"NEXT", <<>>, <<has_failed>>>>}
                      flat == {i \in 1..Len(R.trans) : R.trans[i][3][2][1] = "ITE"}
                  IN  /\ \E i \in 1..Len(R.init) : R.init[i] = <<"NOT", <<>>, <<has_failed>>>>
                      /\ Cardinality(latch) = 1
                      /\ Cardinality(flat) = monitors
                      /\ \A i \in flat :
                            /\ R.trans[i][3][2][3][2][1] = "AND"
                            /\ R.trans[i][3][2][3][2][3][2] = <<"NOT", <<>>, <<has_failed>>>>
                            /\ (run.stage # "none" /\ run.val[name]) =>
                                  ~Holds(R.trans[i][3][2][3][2], run.val, run.val)
                      /\ \A i \in latch :
                            LET failed == R.trans[i][3][2][3]
                            IN  /\ R.trans[i][1] = "IFF" /\ R.trans[i][3][2][1] = "OR"
                                /\ Len(failed) = monitors + 1
                                /\ failed[Len(failed)] = has_failed
                                /\ run.stage = "init" => ~run.val[name]
                                /\ run.stage = "step" =>
                                      (run.val[name] <=>
                                          \/ run.prev[name]
                                          \/ \E j \in 1..monitors : Holds(failed[j], run.prev, run.prev))

\* A run of the model returned for F a in which the monitor of G not a
\* failed: has_failed was false in the state before and is true now.
C19_Witness ==
    /\ last.op = "ltl_circuit_encode" /\ last.err = ""
    /\ last.f = mgr_F(a)
    /\ run.stage = "step"
    /\ \E k \in Numbered(heap[last.ret], "has_failed.") :
          /\ ~run.prev["has_failed." \o ToString(k)]
          /\ run.val["has_failed." \o ToString(k)]

(***************************************************************************)
(* Claims about the tableau of ltlf_encode (SpecEncode).                   *)
(***************************************************************************)
\* The disjunction of vs[1..n], built from FALSE on the left.
RECURSIVE DisjunctionOf(_, _)
DisjunctionOf(vs, n) ==
    IF n = 0 THEN FALSE_ ELSE <<"OR", <<>>, <<DisjunctionOf(vs, n - 1), vs[n]>>>>

\* The variables of the items of el_map from item i on whose key is an X.
RECURSIVE StrongNextVars(_, _)
StrongNextVars(el_map, i) ==
    IF i > Len(el_map) THEN <<>>
    ELSE (IF el_map[i][1][1] = "LTL_X" THEN <<el_map[i][2]>> ELSE <<>>)
            \o StrongNextVars(el_map, i + 1)

C21_LtlfTriggered ==
    [][(/\ last'.op = "ltlf_encode"
        /\ get_free_variables(last'.f) \subseteq heap[last'.m].state_vars
        /\ "LTL_T" \in LtlOperatorsOf(NNFIzer(LtlRewriter(mgr_Not(last'.f))))) =>
        /\ last'.err = ""
        /\ \E i \in 1..Len(heap'[last'.ret].trans) :
              heap'[last'.ret].trans[i][1] = "IFF"]_vars

(***************************************************************************)
(* VMT-LIB serialization.  The stream holds the commands written, in       *)
(* order: <<"declare-fun", name>>, <<"define-fun", name, term, annotation, *)
(* value>> and <<"assert", term>>.  A term is the text of a formula, kept  *)
(* as its tree: <<"atom", <<text>>, <<>>>>, <<"app", <<operator>>, terms>> *)
(* and <<binder, names, <<term>>>>.                                        *)
(***************************************************************************)
\* The orders in which a set can be iterated.
Orders(S) ==
    {o \in [1..Cardinality(S) -> S] : \A i, j \in 1..Cardinality(S) : o[i] = o[j] => i = j}

NEXT == "next"
INIT == "init"
TRANS == "trans"

\* ANNOTS_PROPERTIES_MAP, as the pairs <<annotation, property type>>, in
\* the order of the dictionary.
ANNOTS_PROPERTIES_MAP ==
    <<<<"invar-property", INVAR_PROPERTY>>, <<"live-property", LIVE_PROPERTY>>,
      <<"ltl-property", LTL_PROPERTY>>>>

\* PROPERTIES_ANNOTS_MAP[prop_type]: the annotation, or <<>> for a KeyError.
PROPERTIES_ANNOTS_MAP(prop_type) ==
    LET found == SelectSeq(ANNOTS_PROPERTIES_MAP, LAMBDA item : item[2] = prop_type)
    IN  IF Len(found) = 0 THEN <<>> ELSE <<found[1][1]>>

\* walk_next of the VmtLibSubstituter
VmtLibSubstituter_walk_next(next_substitutions, _bound_variables, results) ==
    IF ~is_symbol(results[1]) THEN Raise("AssertionError")
    ELSE IF results[1] \in DOMAIN next_substitutions /\ results[1] \notin _bound_variables
    THEN next_substitutions[results[1]]
    ELSE results[1]

RECURSIVE VmtLibSubstituter_walk(_, _, _)
VmtLibSubstituter_walk(next_substitutions, _bound_variables, formula) ==
    IF IsRaised(formula) THEN formula
    ELSE IF is_quantifier(formula)
    THEN LET res_formula ==
                VmtLibSubstituter_walk(next_substitutions,
                    _bound_variables \cup quantifier_vars(formula), arg(formula, 1))
         IN  IdentityDagWalker(formula, <<res_formula>>)
    ELSE LET results == [i \in 1..Len(args(formula)) |->
                            VmtLibSubstituter_walk(next_substitutions, _bound_variables,
                                                   arg(formula, i))]
         IN  IF AnyRaised(results) THEN FirstRaised(results)
             ELSE IF node_type(formula) = "NEXT"
             THEN VmtLibSubstituter_walk_next(next_substitutions, _bound_variables, results)
             ELSE IF node_type(formula) = "LTL_R"
             THEN mgr_Not(mgr_U(mgr_Not(results[1]), mgr_Not(results[2])))
             ELSE IdentityDagWalker(formula, results)

\* VmtLibSubstituter.replace
replace(next_substitutions, formula) ==
    VmtLibSubstituter_walk(next_substitutions, {}, push_next(formula))

\* The operator a printer writes for a node type; <<>> where the printer
\* raises NotImplementedError.
printed_operator(type) ==
    CASE type = "AND" -> <<"and">>
      [] type = "OR" -> <<"or">>
      [] type = "NOT" -> <<"not">>
      [] type = "IMPLIES" -> <<"=>">>
      [] type = "IFF" -> <<"=">>
      [] type = "EQUALS" -> <<"=">>
      [] type = "ITE" -> <<"ite">>
      [] type = "LTL_G" -> <<"ltl.G">>
      [] type = "LTL_F" -> <<"ltl.F">>
      [] type = "LTL_U" -> <<"ltl.U">>
      [] type = "LTL_X" -> <<"ltl.X">>
      [] type = "LTL_N" -> <<"ltl.N">>
      [] type = "LTL_H" -> <<"ltl.H">>
      [] type = "LTL_O" -> <<"ltl.O">>
      [] type = "LTL_S" -> <<"ltl.S">>
      [] type = "LTL_Y" -> <<"ltl.Y">>
      [] type = "LTL_Z" -> <<"ltl.Z">>
      [] type = "LTL_R" -> <<"ltl.R">>
      [] OTHER -> <<>>

\* VmtPrinter: the term written for a formula.
RECURSIVE VmtPrinter(_)
VmtPrinter(formula) ==
    LET type == node_type(formula)
        terms == [i \in 1..Len(args(formula)) |-> VmtPrinter(arg(formula, i))]
    IN  IF IsRaised(formula) THEN formula
        ELSE IF type \in {"SYMBOL", "BOOL_CONSTANT", "INT_CONSTANT"}
        THEN <<"atom", formula[2], <<>>>>
        ELSE IF AnyRaised(terms) THEN FirstRaised(terms)
        ELSE IF type = "EXISTS" THEN <<"exists", formula[2], terms>>
        ELSE IF type = "FORALL" THEN <<"forall", formula[2], terms>>
        ELSE IF printed_operator(type) = <<>> THEN Raise("NotImplementedError")
        ELSE <<"app", printed_operator(type), terms>>

\* serialize_command: one command written to the stream, unless an earlier
\* one raised.  o is [err, out]: the exception raised and the stream.
serialize_command(o, command) ==
    IF o.err # "" THEN o ELSE [o EXCEPT !.out = Append(@, command)]

\* The number of functions printed so far for an annotation.
printed_functions(stream, annotation_type) ==
    Cardinality({i \in 1..Len(stream) :
                    stream[i][1] = "define-fun" /\ stream[i][4] = annotation_type})

\* serialize_ann: the annotated definition of a formula.  An exception of
\* the substituter or of the printer ends the serialization.
serialize_ann(o, next_substitutions, formula, annotation_type, value) ==
    IF o.err # "" THEN o
    ELSE LET term == VmtPrinter(replace(next_substitutions, formula))
         IN  IF IsRaised(term) THEN [o EXCEPT !.err = exc_name(term)]
             ELSE serialize_command(o,
                    <<"define-fun",
                      annotation_type \o ToString(printed_functions(o.out, annotation_type)),
                      term, annotation_type, value>>)

RECURSIVE serialize_inputs(_, _, _)
serialize_inputs(o, inputs, i) ==
    IF i > Len(inputs) THEN o
    ELSE serialize_inputs(serialize_command(o, <<"declare-fun", symbol_name(inputs[i])>>),
                          inputs, i + 1)

RECURSIVE serialize_state_vars(_, _, _, _)
serialize_state_vars(o, next_symbols, state_vars, i) ==
    IF i > Len(state_vars) THEN o
    ELSE LET variable == state_vars[i]
             next_var == next_symbols[variable]
             o1 == serialize_command(o, <<"declare-fun", symbol_name(variable)>>)
             o2 == serialize_command(o1, <<"declare-fun", symbol_name(next_var)>>)
         IN  serialize_state_vars(
                serialize_ann(o2, next_symbols, variable, NEXT, symbol_name(next_var)),
                next_symbols, state_vars, i + 1)

RECURSIVE serialize_properties(_, _, _, _)
serialize_properties(o, next_symbols, properties, i) ==
    IF i > Len(properties) \/ o.err # "" THEN o
    ELSE LET prop == properties[i]
             annotation == PROPERTIES_ANNOTS_MAP(prop.prop_type)
         IN  IF annotation = <<>> THEN [o EXCEPT !.err = "KeyError"]
             ELSE serialize_properties(
                    serialize_ann(o, next_symbols, prop.formula, annotation[1],
                                  ToString(prop.idx)),
                    next_symbols, properties, i + 1)

\* Model.serialize, for the orders state_vars and inputs in which the two
\* sets are iterated and the value fr of the FreshSymbol counter: [err, out,
\* fresh].  When an exception is raised, out holds the commands written
\* before it.
serialize(M, fr, state_vars, inputs) ==
    LET next_symbols ==
            [v \in M.state_vars |->
                FreshSymbol(symbol_name(v) \o ".__next",
                            fr + (CHOOSE i \in 1..Len(state_vars) : state_vars[i] = v) - 1)]
        o1 == serialize_inputs([err |-> "", out |-> <<>>], inputs, 1)
        o2 == serialize_state_vars(o1, next_symbols, state_vars, 1)
        o3 == serialize_ann(o2, next_symbols, mgr_And(M.init), INIT, "true")
        o4 == serialize_ann(o3, next_symbols, mgr_And(M.trans), TRANS, "true")
        o5 == serialize_properties(o4, next_symbols, M.properties, 1)
        o6 == serialize_command(o5, <<"assert", VmtPrinter(TRUE_)>>)
    IN  [err |-> o6.err, out |-> o6.out, fresh |-> fr + Len(state_vars)]

(***************************************************************************)
(* The VMT-LIB reader.                                                     *)
(***************************************************************************)
\* The operators the parser interprets: those of SMT-LIB and the LTL
\* operators that VmtLibParser adds.
interpreted ==
    {"and", "or", "not", "=>", "=", "ite",
     "ltl.G", "ltl.U", "ltl.F", "ltl.X", "ltl.H", "ltl.S", "ltl.O", "ltl.Y", "ltl.Z"}

\* The formula built for an interpreted operator applied to formulas.
operator_adapter(operator, fs) ==
    CASE operator = "and" -> mgr_And(fs)
      [] operator = "or" -> mgr_Or(fs)
      [] operator = "not" -> mgr_Not(fs[1])
      [] operator = "=>" -> mgr_Implies(fs[1], fs[2])
      [] operator = "=" -> mgr_EqualsOrIff(fs[1], fs[2])
      [] operator = "ite" -> mgr_Ite(fs[1], fs[2], fs[3])
      [] operator = "ltl.G" -> mgr_G(fs[1])
      [] operator = "ltl.U" -> mgr_U(fs[1], fs[2])
      [] operator = "ltl.F" -> mgr_F(fs[1])
      [] operator = "ltl.X" -> mgr_X(fs[1])
      [] operator = "ltl.H" -> mgr_H(fs[1])
      [] operator = "ltl.S" -> mgr_S(fs[1], fs[2])
      [] operator = "ltl.O" -> mgr_O(fs[1])
      [] operator = "ltl.Y" -> mgr_Y(fs[1])
      [] operator = "ltl.Z" -> mgr_Z(fs[1])

\* A quantifier read over the formula of its body.
VmtLibParser_binder(type, term, body) ==
    IF IsRaised(body) THEN body
    ELSE IF type = "EXISTS" THEN mgr_Exists(term[2], body)
    ELSE mgr_ForAll(term[2], body)

\* VmtLibParser: the formula read from a term, given the names declared so
\* far.  A name that is neither declared nor interpreted is no function, and
\* applying it ends the parse with an exception.
RECURSIVE VmtLibParser(_, _)
VmtLibParser(term, declared) ==
    LET fs == [i \in 1..Len(term[3]) |-> VmtLibParser(term[3][i], declared)]
    IN  IF term[1] = "atom"
        THEN (IF term[2][1] \in {"true", "false"} THEN <<"BOOL_CONSTANT", term[2], <<>>>>
              ELSE IF term[2][1] \in declared THEN Symbol(term[2][1])
              ELSE <<"INT_CONSTANT", term[2], <<>>>>)
        ELSE IF term[1] = "exists"
        THEN VmtLibParser_binder("EXISTS", term,
                VmtLibParser(term[3][1], declared \cup Elements(term[2])))
        ELSE IF term[1] = "forall"
        THEN VmtLibParser_binder("FORALL", term,
                VmtLibParser(term[3][1], declared \cup Elements(term[2])))
        ELSE IF AnyRaised(fs) THEN FirstRaised(fs)
        ELSE IF term[2][1] \notin interpreted THEN Raise("NotImplementedError")
        ELSE operator_adapter(term[2][1], fs)

\* parser.get_script: the names declared, and the formula of every
\* definition (TRUE_ stands at the place of the other commands).
get_declared_symbols(script) ==
    {script[i][2] : i \in {j \in 1..Len(script) : script[j][1] = "declare-fun"}}

get_script(script) ==
    [i \in 1..Len(script) |->
        IF script[i][1] = "define-fun"
        THEN VmtLibParser(script[i][3], get_declared_symbols(script))
        ELSE TRUE_]

\* The formulas annotated with an annotation and the values given, in the
\* order of the script: a sequence of [formula, value].
all_annotated_formulae(script, formulas, annotation) ==
    LET at == SelectSeq([i \in 1..Len(script) |-> i],
                        LAMBDA i : script[i][1] = "define-fun" /\ script[i][4] = annotation)
    IN  [k \in 1..Len(at) |-> [formula |-> formulas[at[k]], value |-> script[at[k]][5]]]

\* int(annotation) for the decimal text of a property index.
int(text) == CHOOSE i \in 0..99 : ToString(i) = text

\* A substitution that replaces the bound occurrences of a name as well.
RECURSIVE substitute_bound_too(_, _, _)
substitute_bound_too(formula, subs, bound) ==
    IF is_symbol(formula)
    THEN (IF symbol_name(formula) \in DOMAIN subs THEN subs[symbol_name(formula)] ELSE formula)
    ELSE IdentityDagWalker(formula,
            [i \in 1..Len(args(formula)) |->
                substitute_bound_too(arg(formula, i), subs, bound)])

\* substituter.substitute with a map from the names of symbols to formulas;
\* a bound name is not replaced.
RECURSIVE substitute(_, _, _)
substitute(formula, subs, bound) ==
    IF is_symbol(formula)
    THEN (IF symbol_name(formula) \in DOMAIN subs /\ formula \notin bound
          THEN subs[symbol_name(formula)] ELSE formula)
    ELSE IF is_quantifier(formula)
    THEN IdentityDagWalker(formula,
            <<substitute(arg(formula, 1), subs, bound \cup quantifier_vars(formula))>>)
    ELSE IdentityDagWalker(formula,
            [i \in 1..Len(args(formula)) |-> substitute(arg(formula, i), subs, bound)])

\* The state variables of the script, declared in the new model.
RECURSIVE read_state_vars(_, _, _)
read_state_vars(r, m, nexts) ==
    IF r.err # "" \/ nexts = <<>> THEN r
    ELSE read_state_vars(add_state_var(r.heap, m, Head(nexts).formula), m, Tail(nexts))

\* The properties of the script, per annotation of ANNOTS_PROPERTIES_MAP:
\* a sequence of properties for add_properties.
RECURSIVE read_properties(_, _, _, _)
read_properties(script, formulas, subs, k) ==
    IF k > Len(ANNOTS_PROPERTIES_MAP) THEN <<>>
    ELSE LET found == all_annotated_formulae(script, formulas, ANNOTS_PROPERTIES_MAP[k][1])
         IN  [i \in 1..Len(found) |->
                [idx |-> int(found[i].value), prop_type |-> ANNOTS_PROPERTIES_MAP[k][2],
                 formula |-> substitute(found[i].formula, subs, {})]]
             \o read_properties(script, formulas, subs, k + 1)

\* next_replacements: the name of every next-relation symbol mapped to the
\* NEXT of its state variable.
next_replacements(nexts) ==
    [n \in {nexts[i].value : i \in 1..Len(nexts)} |->
        mgr_Next(nexts[CHOOSE i \in 1..Len(nexts) : nexts[i].value = n].formula)]

\* The annotated formulas with the next-relation symbols replaced.
substituted(found, subs) ==
    [i \in 1..Len(found) |-> substitute(found[i].formula, subs, {})]

\* The check of the values of the init and trans annotations.
annotation_values(r, found) ==
    IF r.err = "" /\ \E i \in 1..Len(found) : found[i].value # "true"
    THEN Raises(r.heap, "InvalidAnnotationValueError")
    ELSE r

\* read, once the script is parsed: the new model is filled from the
\* annotations.
read_model(h, script, formulas) ==
    LET new == Len(h) + 1
        nexts == all_annotated_formulae(script, formulas, NEXT)
        subs == next_replacements(nexts)
        extra_declarations ==
            {Symbol(n) : n \in get_declared_symbols(script) \ DOMAIN subs}
                \ {nexts[i].formula : i \in 1..Len(nexts)}
        inits == all_annotated_formulae(script, formulas, INIT)
        transs == all_annotated_formulae(script, formulas, TRANS)
        r1 == read_state_vars(Returns(Append(h, EmptyModel), -1), new, nexts)
        r2 == add_input_vars(r1, new, extra_declarations)
        r3 == add_inits(annotation_values(r2, inits), new, substituted(inits, subs))
        r4 == add_transs(annotation_values(r3, transs), new, substituted(transs, subs))
        r5 == add_properties(r4, new, read_properties(script, formulas, subs, 1))
    IN  IF r5.err # "" THEN Raises(h, r5.err) ELSE Returns(r5.heap, new)

\* read: the model read from a stream, as its identity in the heap.
read(h, script) ==
    LET formulas == get_script(script)
    IN  IF AnyRaised(formulas) THEN Raises(h, exc_name(FirstRaised(formulas)))
        ELSE read_model(h, script, formulas)

(***************************************************************************)
(* SpecSerialize: a model over a and b, with or without an invariant       *)
(* property, is given one more property, serialized (twice at most) and    *)
(* read back from the stream.                                              *)
(***************************************************************************)
SerializeModels ==
    {BuildModel(sv, {a, b} \ sv, i, t, p).heap[1] :
        sv \in {{a, b}, {a}}, i \in {<<>>, <<a>>},
        t \in {<<>>, <<mgr_Iff(mgr_Next(a), b)>>, <<mgr_Iff(mgr_Next(a), b), a>>},
        p \in {<<>>, <<a>>}}

\* The properties added: <<kind, formula>>.
SerializeProperties ==
    {<<INVAR_PROPERTY, a>>, <<LIVE_PROPERTY, mgr_Not(a)>>,
     <<LTL_PROPERTY, mgr_G(mgr_Implies(a, mgr_X(b)))>>,
     <<LTL_PROPERTY, mgr_N(a)>>, <<LTL_PROPERTY, mgr_R(a, b)>>,
     <<LTL_PROPERTY, mgr_T(a, b)>>, <<LTL_PROPERTY, mgr_S(mgr_Next(a), b)>>,
     <<LTLF_PROPERTY, mgr_X(a)>>}

InitSerialize ==
    /\ heap \in {<<M>> : M \in SerializeModels}
    /\ fresh = 0
    /\ last = NoCall
    /\ out = NoOut
    /\ trace = NoTrace
    /\ run = NoRun
    /\ pn = NoPush

AddSerializedProperty ==
    /\ last.op = ""
    /\ \E p \in SerializeProperties :
          Call("add_property", 1, p[2], p[1], <<>>, add_property(heap, 1, p[1], p[2], <<>>))

\* model.serialize(outstream) on a new stream.  The two sets of the model
\* are iterated in the order of the hashes of their symbols: some order,
\* kept as the argument f of the call, and the same order when the model
\* is serialized again.
Serialize ==
    /\ last.op \in {"", "add_property", "serialize"}
    /\ last.op = "serialize" => (last.err = "" /\ last.idx = <<>>)
    /\ \E state_vars \in Orders(heap[1].state_vars), inputs \in Orders(heap[1].inputs) :
          /\ last.op = "serialize" => last.f = <<state_vars, inputs>>
          /\ \E r \in {serialize(heap[1], fresh, state_vars, inputs)} :
              /\ out' = r.out
              /\ fresh' = r.fresh
              /\ last' = [op |-> "serialize", m |-> 1, m2 |-> 0,
                          f |-> <<state_vars, inputs>>, ptype |-> "",
                          idx |-> IF last.op = "serialize" THEN <<2>> ELSE <<>>,
                          err |-> r.err, ret |-> -1]
              /\ UNCHANGED <<heap, pn, run, trace>>

\* read(stream) on the stream that serialize wrote
Read ==
    /\ last.op = "serialize"
    /\ last.err = ""
    /\ \E r \in {read(heap, out)} :
           /\ heap' = r.heap
           /\ last' = [op |-> "read", m |-> 1, m2 |-> 0, f |-> TRUE_, ptype |-> "",
                       idx |-> <<>>, err |-> r.err, ret |-> r.ret]
           /\ UNCHANGED <<fresh, pn, run, out, trace>>

NextSerialize ==
    \/ AddSerializedProperty
    \/ Serialize
    \/ Read

SpecSerialize == InitSerialize /\ [][NextSerialize]_vars

\* Two models are structurally equal: the same state variables and inputs,
\* the same INIT and TRANS constraint, and the same properties with the
\* same indices and kinds.
StructurallyEquals(A, B) ==
    /\ A.state_vars = B.state_vars
    /\ A.inputs = B.inputs
    /\ mgr_And(A.init) = mgr_And(B.init)
    /\ mgr_And(A.trans) = mgr_And(B.trans)
    /\ Elements(A.properties) = Elements(B.properties)

HasLtlfProperty(M) == \E i \in 1..Len(M.properties) : M.properties[i].prop_type = LTLF_PROPERTY

\* C22: for every well-formed model M without LTLf properties, LTL
\* properties with N, R or T and inputs included, M is serialized without
\* an exception and reading the stream back gives a model that is
\* structurally equal to M.
C22_RoundTrip ==
    [][~HasLtlfProperty(heap[1]) =>
        /\ last'.op = "serialize" => last'.err = ""
        /\ last'.op = "read" =>
              /\ last'.err = ""
              /\ StructurallyEquals(heap'[last'.ret], heap[1])]_vars

\* The operators applied in a term.
RECURSIVE OperatorsOfTerm(_)
OperatorsOfTerm(term) ==
    (IF term[1] = "app" THEN {term[2][1]} ELSE {})
        \cup UNION {OperatorsOfTerm(term[3][i]) : i \in 1..Len(term[3])}

\* The property formulas of M have an operator of the set types.
PropertyWith(M, types) ==
    \E i \in 1..Len(M.properties) : LtlOperatorsOf(M.properties[i].formula) \cap types # {}

\* C23: serializing a model with a property formula that contains T
\* succeeds, and no term written applies ltl.T.
C23_SerializeT ==
    [][(last'.op = "serialize" /\ PropertyWith(heap[1], {"LTL_T"})) =>
        /\ last'.err = ""
        /\ \A i \in 1..Len(out') :
              out'[i][1] = "define-fun" => "ltl.T" \notin OperatorsOfTerm(out'[i][3])]_vars

\* The annotation of a property kind in a VMT-LIB script.
KindAnnotation(prop_type) ==
    CASE prop_type = INVAR_PROPERTY -> "invar-property"
      [] prop_type = LIVE_PROPERTY -> "live-property"
      [] prop_type = LTL_PROPERTY -> "ltl-property"
      [] prop_type = LTLF_PROPERTY -> "ltlf-property"

\* C24: a model with properties of the kinds INVAR, LIVE, LTL and LTLF
\* (none of them with the operator T) is serialized without an exception,
\* and every property is written as a definition annotated with
\* :invar-property, :live-property, :ltl-property or :ltlf-property, as is
\* its kind, and its index.
C24_PropertyAnnotations ==
    [][(last'.op = "serialize" /\ ~PropertyWith(heap[1], {"LTL_T"})) =>
        /\ last'.err = ""
        /\ \A i \in 1..Len(heap[1].properties) :
              \E k \in 1..Len(out') :
                  /\ out'[k][1] = "define-fun"
                  /\ out'[k][4] = KindAnnotation(heap[1].properties[i].prop_type)
                  /\ out'[k][5] = ToString(heap[1].properties[i].idx)]_vars

(***************************************************************************)
(* The renamer.  A callback is a map from names to names.                  *)
(***************************************************************************)
\* _rename_symbol: the symbol of the new name, of the type of the old one.
\* A name has one type in an environment, so a new name of another type is
\* refused by the formula manager.
_rename_symbol(symbol, callback) ==
    LET res == callback[symbol_name(symbol)]
    IN  IF get_type(Symbol(res)) # get_type(symbol) THEN Raise("PysmtTypeError")
        ELSE Symbol(res)

\* The loop of rename over the state variables (as_state) or the inputs,
\* iterated in the order variables.
RECURSIVE rename_variables(_, _, _, _, _, _)
rename_variables(r, m, callback, variables, as_state, i) ==
    IF r.err # "" \/ i > Len(variables) THEN r
    ELSE LET new_var == _rename_symbol(variables[i], callback)
         IN  IF IsRaised(new_var) THEN Raises(r.heap, exc_name(new_var))
             ELSE rename_variables(
                    IF as_state THEN add_state_var(r.heap, m, new_var)
                    ELSE add_input_var(r.heap, m, new_var),
                    m, callback, variables, as_state, i + 1)

\* The properties of a model with the formulas substituted.
substituted_properties(properties, subs) ==
    [i \in 1..Len(properties) |->
        [properties[i] EXCEPT !.formula = substitute(@, subs, {})]]

\* rename, for the orders in which the two sets of the model are iterated.
rename(h, model, callback, state_vars, inputs) ==
    LET new == Len(h) + 1
        subs == [n \in {symbol_name(v) : v \in h[model].state_vars \cup h[model].inputs} |->
                    Symbol(callback[n])]
        r1 == rename_variables(Returns(Append(h, EmptyModel), -1), new, callback,
                               state_vars, TRUE, 1)
        r2 == rename_variables(r1, new, callback, inputs, FALSE, 1)
        r3 == add_inits(r2, new,
                [i \in 1..Len(h[model].init) |-> substitute(h[model].init[i], subs, {})])
        r4 == add_transs(r3, new,
                [i \in 1..Len(h[model].trans) |-> substitute(h[model].trans[i], subs, {})])
        r5 == add_properties(r4, new, substituted_properties(h[model].properties, subs))
    IN  IF r5.err # "" THEN Raises(h, r5.err) ELSE Returns(r5.heap, new)

(***************************************************************************)
(* SpecRename: a model with quantified properties is renamed once.         *)
(***************************************************************************)
RenameBody == mgr_And(<<mgr_Iff(a, mgr_Next(a)), mgr_Equals(x, IntConst("0"))>>)

RenameModels ==
    {add_properties(BuildModel({a}, {x}, <<a>>, <<mgr_Iff(a, mgr_Next(a))>>, <<>>), 1,
        <<[idx |-> 0, prop_type |-> INVAR_PROPERTY,
           formula |-> mgr_ForAll(<<"x">>, RenameBody)],
          [idx |-> 1, prop_type |-> LIVE_PROPERTY,
           formula |-> mgr_Exists(<<"x", "a">>, RenameBody)]>>).heap[1],
     add_properties(BuildModel({a, b}, {}, <<a>>, <<mgr_Iff(mgr_Next(a), b)>>, <<>>), 1,
        <<[idx |-> 2, prop_type |-> LTL_PROPERTY,
           formula |-> mgr_G(mgr_Implies(a, mgr_X(b)))],
          [idx |-> 0, prop_type |-> INVAR_PROPERTY,
           formula |-> mgr_Exists(<<"b">>, mgr_Or(<<a, b>>))]>>).heap[1],
     add_properties(BuildModel({a}, {b, x}, <<>>, <<mgr_Or(<<a, mgr_Next(b)>>)>>, <<>>), 1,
        <<[idx |-> 1, prop_type |-> INVAR_PROPERTY,
           formula |-> mgr_ForAll(<<"a">>, mgr_Or(<<a, b>>))]>>).heap[1]}

\* The callbacks: maps from the names in use to names, some not injective
\* and some that give a name of another type.
Callbacks == [{"a", "b", "x"} -> {"a", "b", "c", "x", "y"}]

InitRename ==
    /\ heap \in {<<M>> : M \in RenameModels}
    /\ fresh = 0
    /\ last = NoCall
    /\ out = NoOut
    /\ trace = NoTrace
    /\ run = NoRun
    /\ pn = NoPush

\* rename(model, callback); the callback is kept as the argument f of the call
Rename ==
    /\ last.op = ""
    /\ \E callback \in Callbacks :
       \E state_vars \in Orders(heap[1].state_vars), inputs \in Orders(heap[1].inputs) :
       \E r \in {rename(heap, 1, callback, state_vars, inputs)} :
          /\ heap' = r.heap
          /\ last' = [op |-> "rename", m |-> 1, m2 |-> 0, f |-> callback, ptype |-> "",
                      idx |-> <<>>, err |-> r.err, ret |-> r.ret]
          /\ UNCHANGED <<fresh, pn, run, out, trace>>

NextRename == Rename

SpecRename == InitRename /\ [][NextRename]_vars

\* f with the free occurrences of every name replaced by the callback's name
\* for it, and the occurrences bound by a quantifier kept.
RECURSIVE RenamedFree(_, _, _)
RenamedFree(f, callback, bound) ==
    IF f[1] = "SYMBOL"
    THEN (IF f[2][1] \in bound \/ f[2][1] \notin DOMAIN callback THEN f
          ELSE <<"SYMBOL", <<callback[f[2][1]]>>, <<>>>>)
    ELSE <<f[1], f[2],
           [i \in 1..Len(f[3]) |->
                RenamedFree(f[3][i], callback,
                    IF f[1] \in {"EXISTS", "FORALL"}
                    THEN bound \cup {f[2][k] : k \in 1..Len(f[2])} ELSE bound)]>>

\* C25: the model that rename(M, callback) returns is a new one; its state
\* variables are those of M under the callback's names and its inputs
\* likewise, each of the type of the old symbol; its INIT and TRANS
\* constraints and its properties are those of M, in order and with the
\* same indices and kinds, with the free symbols renamed and the occurrences
\* bound by a quantifier kept; M is left as it was.
C25_Rename ==
    [][(last'.op = "rename" /\ last'.err = "") =>
        LET M == heap[1]
            R == heap'[last'.ret]
            callback == last'.f
            renamed(v) == <<"SYMBOL", <<callback[v[2][1]]>>, <<>>>>
        IN  /\ last'.ret = Len(heap) + 1
            /\ heap'[1] = M
            /\ R.state_vars = {renamed(v) : v \in M.state_vars}
            /\ R.inputs = {renamed(v) : v \in M.inputs}
            /\ \A v \in M.state_vars \cup M.inputs : get_type(renamed(v)) = get_type(v)
            /\ R.init = [i \in 1..Len(M.init) |-> RenamedFree(M.init[i], callback, {})]
            /\ R.trans = [i \in 1..Len(M.trans) |-> RenamedFree(M.trans[i], callback, {})]
            /\ R.properties =
                  [i \in 1..Len(M.properties) |->
                      [idx |-> M.properties[i].idx,
                       prop_type |-> M.properties[i].prop_type,
                       formula |-> RenamedFree(M.properties[i].formula, callback, {})]]]_vars

\* rename gave a and x new names in a model with the property
\* ForAll x . ((a <-> next(a)) & x = 0): the property of the new model has
\* the new name of a and the bound x.
C25_Witness ==
    /\ last.op = "rename"
    /\ last.err = ""
    /\ last.f["a"] = "c"
    /\ last.f["x"] = "y"
    /\ heap[1].inputs = {x}
    /\ heap[last.ret].inputs = {Symbol("y")}
    /\ heap[last.ret].properties[1].formula =
          mgr_ForAll(<<"x">>, mgr_And(<<mgr_Iff(Symbol("c"), mgr_Next(Symbol("c"))),
                                         mgr_Equals(x, IntConst("0"))>>))

\* C26: the order of the state variables, of the INIT and TRANS constraints
\* and of the fresh variables is kept, so that serializing the same model
\* twice writes the same output.
C26_SerializeTwice ==
    [][(last.op = "serialize" /\ last.err = "" /\ last'.op = "serialize") =>
        (last'.err = "" /\ out' = out)]_vars

\* ---------------------------------------------------------------------
\* Counterexample traces (pyvmt.solvers.traces): a trace is the sequence
\* of its steps, each an assignment with the mark of a loopback step,
\* and the index of its loopback step (-1 when it has none).  Steps are
\* numbered from 0.
\* ---------------------------------------------------------------------

MaxSteps == 4       \* steps a trace is given

\* the assignments of the steps: a value for x and a value for y
Assignments == [x : {0, 1}, y : BOOLEAN]

TraceReturns(t, ret) == [err |-> "", trace |-> t, ret |-> ret]
TraceRaises(t, exc) == [err |-> exc, trace |-> t, ret |-> -1]

steps_count(t) == Len(t.steps)
has_loopback_step(t) == t.loopback # -1
get_loopback_step_idx(t) == t.loopback

\* create_step that takes a second loopback step
create_step_again(t, assignments, is_loopback) ==
    TraceReturns([steps |-> Append(t.steps, [assignments |-> assignments,
                                             is_loopback |-> is_loopback]),
                  loopback |-> IF is_loopback THEN steps_count(t) ELSE t.loopback],
                 steps_count(t))

\* trace.create_step(assignments, is_loopback): the new step is the last
create_step(t, assignments, is_loopback) ==
    IF is_loopback /\ has_loopback_step(t)
    THEN TraceRaises(t, "DuplicateLoopbackStepError")
    ELSE TraceReturns([steps |-> Append(t.steps, [assignments |-> assignments,
                                                  is_loopback |-> is_loopback]),
                       loopback |-> IF is_loopback THEN steps_count(t) ELSE t.loopback],
                      steps_count(t))

\* trace.get_loopback_step()
get_loopback_step(t) ==
    IF has_loopback_step(t) THEN TraceReturns(t, get_loopback_step_idx(t))
    ELSE TraceRaises(t, "MissingLoopbackStepError")

\* step.has_next_step(), step.get_next_step() of the step of index i
has_next_step(t, i) == i + 1 < steps_count(t) \/ has_loopback_step(t)
get_next_step(t, i) ==
    IF i + 1 < steps_count(t) THEN TraceReturns(t, i + 1)
    ELSE IF has_loopback_step(t) THEN TraceReturns(t, get_loopback_step_idx(t))
    ELSE TraceRaises(t, "TraceStepNotFoundError")

\* step.has_prev_step(), step.get_prev_step() of the step of index i
has_prev_step(t, i) == i > 0
get_prev_step(t, i) ==
    IF has_prev_step(t, i) THEN TraceReturns(t, i - 1)
    ELSE TraceRaises(t, "TraceStepNotFoundError")

\* Trace('counterexample', model.get_state_vars())
InitTrace ==
    /\ heap = <<>>
    /\ fresh = 0
    /\ last = NoCall
    /\ out = NoOut
    /\ trace = NoTrace
    /\ run = NoRun
    /\ pn = NoPush

TraceCall(op, assignments, is_loopback, i, r) ==
    [op |-> op, m |-> 0, m2 |-> 0, f |-> assignments,
     ptype |-> IF is_loopback THEN "is_loopback" ELSE "",
     idx |-> i, err |-> r.err, ret |-> r.ret]

CreateStep ==
    /\ steps_count(trace) < MaxSteps
    /\ \E assignments \in Assignments, is_loopback \in BOOLEAN :
       \E r \in {create_step(trace, assignments, is_loopback)} :
          /\ trace' = r.trace
          /\ last' = TraceCall("create_step", assignments, is_loopback, <<>>, r)
    /\ UNCHANGED <<heap, fresh, pn, run, out>>

GetLoopbackStep ==
    /\ \E r \in {get_loopback_step(trace)} :
          /\ trace' = r.trace
          /\ last' = TraceCall("get_loopback_step", <<>>, FALSE, <<>>, r)
    /\ UNCHANGED <<heap, fresh, pn, run, out>>

GetNextStep ==
    /\ \E i \in 0..(steps_count(trace) - 1) :
       \E r \in {get_next_step(trace, i)} :
          /\ trace' = r.trace
          /\ last' = TraceCall("get_next_step", <<>>, FALSE, <<i>>, r)
    /\ UNCHANGED <<heap, fresh, pn, run, out>>

GetPrevStep ==
    /\ \E i \in 0..(steps_count(trace) - 1) :
       \E r \in {get_prev_step(trace, i)} :
          /\ trace' = r.trace
          /\ last' = TraceCall("get_prev_step", <<>>, FALSE, <<i>>, r)
    /\ UNCHANGED <<heap, fresh, pn, run, out>>

NextTrace == CreateStep \/ GetLoopbackStep \/ GetNextStep \/ GetPrevStep

SpecTrace == InitTrace /\ [][NextTrace]_vars

\* the indices of the steps marked as loopback steps
LoopbackSteps(t) == {i \in 0..(steps_count(t) - 1) : t.steps[i + 1].is_loopback}

\* C27: a trace has at most one loopback step; create_step with
\* is_loopback on a trace that has one fails with
\* DuplicateLoopbackStepError and adds no step; the successor of the last
\* step is the loopback step when there is one, and otherwise
\* get_next_step of the last step fails with TraceStepNotFoundError and
\* get_loopback_step with MissingLoopbackStepError.
C27_Loopback ==
    [][/\ Cardinality(LoopbackSteps(trace')) <= 1
       /\ LoopbackSteps(trace') =
              (IF has_loopback_step(trace') THEN {get_loopback_step_idx(trace')} ELSE {})
       /\ (last'.op = "create_step" /\ last'.ptype = "is_loopback"
              /\ LoopbackSteps(trace) # {}) =>
              (last'.err = "DuplicateLoopbackStepError" /\ trace' = trace)
       /\ (last'.op = "create_step" /\ last'.err = "") =>
              (/\ steps_count(trace') = steps_count(trace) + 1
               /\ last'.ret = steps_count(trace)
               /\ trace'.steps[steps_count(trace')] =
                      [assignments |-> last'.f,
                       is_loopback |-> (last'.ptype = "is_loopback")])
       /\ (last'.op = "get_next_step" /\ last'.idx = <<steps_count(trace) - 1>>) =>
              (IF LoopbackSteps(trace) # {}
               THEN last'.err = "" /\ last'.ret \in LoopbackSteps(trace)
               ELSE last'.err = "TraceStepNotFoundError")
       /\ (last'.op = "get_loopback_step" /\ LoopbackSteps(trace) = {}) =>
              last'.err = "MissingLoopbackStepError"
      ]_vars

C27_Witness ==
    /\ last.op = "create_step"
    /\ last.err = "DuplicateLoopbackStepError"
    /\ steps_count(trace) >= 2
    /\ Cardinality(LoopbackSteps(trace)) = 1

\* C28: when the rewritten negated property has no Until, the model that
\* ltl_encode returns has one property, the live property not(true) at
\* index 0, and no state variable, INIT or TRANS constraint other than
\* those of the model and of the tableau.
C28_EmptyJustice ==
    [][(last'.op = "ltl_encode" /\ last'.err = "") =>
        LET M == heap[last'.m]
            R == heap'[last'.ret]
        IN  \A rewritten \in {LtlRewriter(mgr_Not(last'.f))} :
            \A el_map \in {get_el_map(FALSE, rewritten, fresh).el_map} :
            UntilsOf(rewritten) = {} =>
                /\ R.properties = <<[idx |-> 0, prop_type |-> LIVE_PROPERTY,
                                     formula |-> <<"NOT", <<>>, <<TRUE_>>>>]>>
                /\ R.state_vars =
                       M.state_vars \cup {el_map[i][2] : i \in 1..Len(el_map)}
                /\ Len(R.init) = Len(M.init) + 1
                /\ Len(R.trans) = Len(M.trans) + Len(el_map)]_vars

\* ltl_encode returned a model for Y a, whose tableau has one variable
\* and no justice.
C28_Witness ==
    /\ last.op = "ltl_encode"
    /\ last.err = ""
    /\ last.f = mgr_Y(a)
    /\ Cardinality(heap[last.ret].state_vars) = Cardinality(heap[last.m].state_vars) + 1
    /\ Len(heap[last.ret].properties) = 1

\* accept holds in the current state of the run
AcceptHolds == run.stage \in {"init", "step"} /\ Holds(run.sj.accept, run.val, run.val)

\* the i-th justice holds in the current state of the run
JusticeHolds(i) ==
    /\ run.stage \in {"init", "step"}
    /\ i <= Len(run.justice) => Holds(run.justice[i], run.val, run.val)

\* C29: on every infinite run of the flattening of k >= 1 justices, accept
\* holds infinitely often if and only if every justice holds infinitely
\* often.
C29_AcceptIffJustices ==
    [](Len(run.justice) >= 1) =>
        /\ ([]<>AcceptHolds) => (\A i \in 1..MaxJustice : []<>JusticeHolds(i))
        /\ (\A i \in 1..MaxJustice : []<>JusticeHolds(i)) => ([]<>AcceptHolds)

\* A run of two different justices in which accept held, was reset, and
\* holds again.
C29_Witness ==
    /\ run.stage = "step"
    /\ Len(run.justice) = 2
    /\ run.justice[1] # run.justice[2]
    /\ Holds(run.sj.accept, run.val, run.val)
    /\ ~Holds(run.sj.accept, run.prev, run.prev)
    /\ ~Holds(run.justice[1], run.val, run.val)

\* C30: an add_property call that fails, with or without an explicit
\* index, leaves the model as it was, next_property_idx included.
C30_FailedAddProperty ==
    [][(last'.op = "add_property" /\ last'.err # "") => heap' = heap]_vars

====
